---------------------------- MODULE Spec2Model ----------------------------
(***************************************************************************)
(* A model of the IRPF extraction engine of rkenski/IRPF_MCP:              *)
(*   - the legacy fixed-width decoder (rec2json.py): parse_line and        *)
(*     parse_rec_file;                                                     *)
(*   - the normalisers of the XML parser (xml2Pydantic.py): parse_money,   *)
(*     normalise_codigo, beneficiario_from_flag;                           *)
(*   - the construction of a BemDireito (IRPF_pydantic_schem_resumido.py); *)
(*   - parse_irpf2025 (xml2Pydantic.py) with its six schedule extractors,  *)
(*     the records they construct, and its caller read_tax_return          *)
(*     (server_small.py).                                                  *)
(* A Python str is a sequence of one-character strings; a dict is a        *)
(* function whose domain is its set of keys.                               *)
(***************************************************************************)
EXTENDS Integers, Sequences, FiniteSets, TLC

VARIABLES
    file,      \* parse_rec_file: the raw lines the loop has consumed, in order
    data,      \* parse_rec_file: the bundle being filled
    eof,       \* parse_rec_file: the loop has ended and data was returned
    rerun,     \* parse_rec_file: a second run over the same file
    fn,        \* a call of a pure helper: the helper called
    arg,       \* a call of a pure helper: its argument
    ret,       \* a call of a pure helper: what it returned or raised
    pc,        \* a call of a pure helper: "call" before, "return" after
    kwargs,    \* BemDireito(**kwargs): the keyword arguments
    values,    \* BemDireito(**kwargs): the fields validated so far
    errors,    \* BemDireito(**kwargs): the fields that failed validation
    bemPc,     \* BemDireito(**kwargs): the next field, then the outcome
    doc,       \* read_tax_return: the XML file the call reads
    xpc,       \* read_tax_return: the statement the call is at
    locals,    \* parse_irpf2025: the schedules extracted so far
    result,    \* parse_irpf2025: the Declaration returned or the exception
    response,  \* read_tax_return: what the call returned
    calls      \* read_tax_return: the responses of the calls before this one

recVars == <<file, data, eof, rerun>>
fnVars == <<fn, arg, ret, pc>>
bemVars == <<kwargs, values, errors, bemPc>>
xmlVars == <<doc, xpc, locals, result, response, calls>>
vars == <<file, data, eof, rerun, fn, arg, ret, pc, kwargs, values, errors, bemPc,
          doc, xpc, locals, result, response, calls>>

\* what the actions of one part leave alone
notRec == <<fnVars, bemVars, xmlVars>>
notFn == <<recVars, bemVars, xmlVars>>
notBem == <<recVars, fnVars, xmlVars>>
notXml == <<recVars, fnVars, bemVars>>

\* the parts a specification does not run
IdleRec == file = <<>> /\ data = <<>> /\ eof = FALSE /\ rerun = <<>>
IdleFn == fn = "none" /\ arg = <<>> /\ ret = <<>> /\ pc = "idle"
IdleBem == kwargs = <<>> /\ values = <<>> /\ errors = {} /\ bemPc = "idle"
IdleXml ==
    /\ doc = <<>>
    /\ xpc = "idle"
    /\ locals = <<>>
    /\ result = <<>>
    /\ response = <<>>
    /\ calls = <<>>

----------------------------------------------------------------------------
(* Python str helpers *)

\* the whitespace str.strip() removes, within the alphabet of the model
Whitespace == {" ", "\t"}

RECURSIVE lstrip(_)
lstrip(s) ==
    IF s # <<>> /\ Head(s) \in Whitespace THEN lstrip(Tail(s)) ELSE s

RECURSIVE rstrip(_)
rstrip(s) ==
    IF s # <<>> /\ s[Len(s)] \in Whitespace
    THEN rstrip(SubSeq(s, 1, Len(s) - 1))
    ELSE s

\* s.strip()
strip(s) == rstrip(lstrip(s))

\* s.rstrip("\r\n")
RECURSIVE rstrip_crlf(_)
rstrip_crlf(s) ==
    IF s # <<>> /\ s[Len(s)] \in {"\r", "\n"}
    THEN rstrip_crlf(SubSeq(s, 1, Len(s) - 1))
    ELSE s

\* a slice bound i of a sequence of length n, as Python clamps it
PyIdx(i, n) ==
    IF i < 0 THEN (IF i + n < 0 THEN 0 ELSE i + n)
    ELSE (IF i > n THEN n ELSE i)

\* s[lo:hi]
PySlice(s, lo, hi) == SubSeq(s, PyIdx(lo, Len(s)) + 1, PyIdx(hi, Len(s)))

\* s[lo:]
PySliceFrom(s, lo) == SubSeq(s, PyIdx(lo, Len(s)) + 1, Len(s))

----------------------------------------------------------------------------
(* rec2json.py: the layout registry *)

HC == <<"H", "C">>
RC == <<"R", "C">>
NC == <<"N", "C">>
VC == <<"V", "C">>
TC == <<"T", "C">>
MC == <<"M", "C">>
UNKNOWN == <<"U", "N", "K", "N", "O", "W", "N">>

LAYOUT_HC == <<
    <<"TP_REG", 0, 2>>,
    <<"NR_CPF_CNPJ", 2, 13>>,
    <<"FILLER", 13, 16>>,
    <<"NR_CONTROLE", 16, 26>> >>

LAYOUT_RC == <<
    <<"TP_REG", 0, 2>>,
    <<"NR_CPF_CNPJ", 2, 13>>,
    <<"FILLER1", 13, 16>>,
    <<"DIAREC", 16, 18>>,
    <<"MESREC", 18, 20>>,
    <<"ANOREC", 20, 24>>,
    <<"HORAREC", 24, 26>>,
    <<"MINREC", 26, 28>>,
    <<"SEGREC", 28, 30>>,
    <<"LOCALREC", 30, 55>>,
    <<"NR_REMESSA", 55, 59>>,
    <<"ASSINATURA", 59, 69>>,
    <<"IN_GATEWAY", 69, 70>>,
    <<"FILLER2", 70, 71>>,
    <<"IN_APLIC_TRANSMISSAO", 71, 72>>,
    <<"APLIC_TRANSMISSAO", 72, 74>>,
    <<"COD_AG_TRANSMISSOR", 74, 77>>,
    <<"NI_ASSINATURA_DECL", 77, 91>>,
    <<"CONTROLE_SRF", 91, 101>>,
    <<"FILLER3", 101, 121>>,
    <<"NR_CONTROLE", 121, 131>> >>

LAYOUT_NC == <<
    <<"TP_REG", 0, 2>>,
    <<"IN_ACAO_FISCAL", 2, 3>>,
    <<"NM_DELEGADO", 3, 63>>,
    <<"NR_MATRIC_DELEGADO", 63, 71>>,
    <<"NR_CARGO", 71, 72>>,
    <<"NR_UA", 72, 79>>,
    <<"NM_UA", 79, 129>>,
    <<"DT_VENCIMENTO", 129, 137>>,
    <<"QT_MESES", 137, 139>>,
    <<"VR_MULTA", 139, 152>>,
    <<"NR_DISTRIBUICAO", 152, 166>>,
    <<"IN_OBRIGATORIEDADE", 166, 167>>,
    <<"TP_DELEGACIA", 167, 224>>,
    <<"FILLER", 224, 252>>,
    <<"NR_CONTROLE", 252, 262>> >>

LAYOUT_VC == <<
    <<"TP_REG", 0, 2>>,
    <<"IN_PENDENCIA", 2, 7>>,
    <<"QTD_RETIFICADORAS", 7, 10>>,
    <<"IN_DEBITO", 10, 11>>,
    <<"DATA_MENSAGEM", 11, 19>>,
    <<"IN_SALDO_RESTITUICAO", 19, 20>>,
    <<"DATA_SALDO_RESTITUICAO", 20, 28>>,
    <<"NR_CPF_DARF1", 28, 39>>,
    <<"VL_DARF1", 39, 52>>,
    <<"NR_CPF_DARF2", 52, 63>>,
    <<"VL_DARF2", 63, 76>>,
    <<"NR_CPF_DARF3", 76, 87>>,
    <<"VL_DARF3", 87, 100>>,
    <<"NR_CPF_DARF4", 100, 111>>,
    <<"VL_DARF4", 111, 124>>,
    <<"NR_CPF_DARF5", 124, 135>>,
    <<"VL_DARF5", 135, 148>>,
    <<"NR_CPF_DARF6", 148, 159>>,
    <<"VL_DARF6", 159, 172>>,
    <<"NR_CPF_DARF7", 172, 183>>,
    <<"VL_DARF7", 183, 196>>,
    <<"NR_CONTROLE", 196, 206>> >>

\* (LAYOUT_TC with SIGNET one column short: column 47 is in no field)
LAYOUT_TC_gap == <<
    <<"TP_REG", 0, 2>>,
    <<"NR_CPF_CNPJ", 2, 13>>,
    <<"FILLER", 13, 16>>,
    <<"SIGNET", 16, 47>>,
    <<"NR_CONTROLE", 48, 58>> >>

LAYOUT_TC == <<
    <<"TP_REG", 0, 2>>,
    <<"NR_CPF_CNPJ", 2, 13>>,
    <<"FILLER", 13, 16>>,
    <<"SIGNET", 16, 48>>,
    <<"NR_CONTROLE", 48, 58>> >>

\* the keys of LAYOUTS
LayoutKeys == {HC, RC, NC, VC, TC}

\* LAYOUTS.get(reg_type): the layout, or the empty sequence for None
LAYOUTS(reg_type) ==
    CASE reg_type = HC -> LAYOUT_HC
      [] reg_type = RC -> LAYOUT_RC
      [] reg_type = NC -> LAYOUT_NC
      [] reg_type = VC -> LAYOUT_VC
      [] reg_type = TC -> LAYOUT_TC
      [] OTHER -> <<>>

\* the names of the fields of a layout
FieldNames(layout) == {layout[i][1] : i \in DOMAIN layout}

\* the last triple of the layout with this name: the one whose assignment stays
LastIndexOf(layout, f) ==
    CHOOSE i \in DOMAIN layout :
        /\ layout[i][1] = f
        /\ \A j \in DOMAIN layout : layout[j][1] = f => j <= i

\* DecodeLayout with a field left out when the line ends before its first column
DecodeLayout_skipsBeyond(layout, l) ==
    [f \in {layout[i][1] : i \in {j \in DOMAIN layout : layout[j][2] < Len(l)}} |->
        LET i == CHOOSE i \in DOMAIN layout : layout[i][1] = f
        IN  strip(PySlice(l, layout[i][2], layout[i][3]))]

\* the loop of parse_line over a layout: parsed[field] = line[start:end].strip()
DecodeLayout(layout, l) ==
    [f \in FieldNames(layout) |->
        LET i == LastIndexOf(layout, f)
        IN  strip(PySlice(l, layout[i][2], layout[i][3]))]

\* parse_line with RAW stripped on the left only
parse_line_lstripRaw(l) ==
    LET reg_type == PySlice(l, 0, 2)
        layout == LAYOUTS(reg_type)
    IN  IF layout = <<>>
        THEN IF reg_type = MC
             THEN [TP_REG |-> MC,
                   DES_MENSAGEM |-> strip(PySlice(l, 2, -10)),
                   NR_CONTROLE |-> PySliceFrom(l, -10)]
             ELSE [TP_REG |-> UNKNOWN, RAW |-> lstrip(l)]
        ELSE [f \in FieldNames(layout) |->
                LET i == LastIndexOf(layout, f)
                IN  strip(PySlice(l, layout[i][2], layout[i][3]))]

\* parse_line(line)
parse_line(l) ==
    LET reg_type == PySlice(l, 0, 2)
        layout == LAYOUTS(reg_type)
    IN  IF layout = <<>>
        THEN IF reg_type = MC
             THEN [TP_REG |-> MC,
                   DES_MENSAGEM |-> strip(PySlice(l, 2, -10)),
                   NR_CONTROLE |-> PySliceFrom(l, -10)]
             ELSE [TP_REG |-> UNKNOWN, RAW |-> strip(l)]
        ELSE DecodeLayout(layout, l)

----------------------------------------------------------------------------
(* rec2json.py: parse_rec_file *)

\* {}
EmptyRecord == [k \in {} |-> <<>>]

\* the bundle parse_rec_file starts from
EmptyData ==
    [HC |-> EmptyRecord, RC |-> EmptyRecord, NC |-> <<>>, VC |-> EmptyRecord,
     MC |-> <<>>, TC |-> EmptyRecord, UNKNOWN |-> <<>>]

\* record.get("TP_REG", "UNKNOWN")
KindOf(record) ==
    IF "TP_REG" \in DOMAIN record THEN record["TP_REG"] ELSE UNKNOWN

\* Dispatch with the final else branch doing nothing
Dispatch_dropsUnknown(d, record) ==
    LET kind == KindOf(record)
    IN  CASE kind = HC -> [d EXCEPT !.HC = record]
          [] kind = RC -> [d EXCEPT !.RC = record]
          [] kind = NC -> [d EXCEPT !.NC = Append(@, record)]
          [] kind = VC -> [d EXCEPT !.VC = record]
          [] kind = MC -> [d EXCEPT !.MC = Append(@, record)]
          [] kind = TC -> [d EXCEPT !.TC = record]
          [] OTHER -> d

\* Dispatch with the list records inserted at the front
Dispatch_prepends(d, record) ==
    LET kind == KindOf(record)
    IN  CASE kind = HC -> [d EXCEPT !.HC = record]
          [] kind = RC -> [d EXCEPT !.RC = record]
          [] kind = NC -> [d EXCEPT !.NC = <<record>> \o @]
          [] kind = VC -> [d EXCEPT !.VC = record]
          [] kind = MC -> [d EXCEPT !.MC = <<record>> \o @]
          [] kind = TC -> [d EXCEPT !.TC = record]
          [] OTHER -> [d EXCEPT !.UNKNOWN = <<record>> \o @]

\* Dispatch with a singleton slot written only while it is empty
Dispatch_firstWins(d, record) ==
    LET kind == KindOf(record)
        keep(old) == IF old = EmptyRecord THEN record ELSE old
    IN  CASE kind = HC -> [d EXCEPT !.HC = keep(@)]
          [] kind = RC -> [d EXCEPT !.RC = keep(@)]
          [] kind = NC -> [d EXCEPT !.NC = Append(@, record)]
          [] kind = VC -> [d EXCEPT !.VC = keep(@)]
          [] kind = MC -> [d EXCEPT !.MC = Append(@, record)]
          [] kind = TC -> [d EXCEPT !.TC = keep(@)]
          [] OTHER -> [d EXCEPT !.UNKNOWN = Append(@, record)]

\* Dispatch without the branch of the messages
Dispatch_noMessageBranch(d, record) ==
    LET kind == KindOf(record)
    IN  CASE kind = HC -> [d EXCEPT !.HC = record]
          [] kind = RC -> [d EXCEPT !.RC = record]
          [] kind = NC -> [d EXCEPT !.NC = Append(@, record)]
          [] kind = VC -> [d EXCEPT !.VC = record]
          [] kind = TC -> [d EXCEPT !.TC = record]
          [] OTHER -> [d EXCEPT !.UNKNOWN = Append(@, record)]

\* the if/elif chain of the loop body
Dispatch(d, record) ==
    LET kind == KindOf(record)
    IN  CASE kind = HC -> [d EXCEPT !.HC = record]
          [] kind = RC -> [d EXCEPT !.RC = record]
          [] kind = NC -> [d EXCEPT !.NC = Append(@, record)]
          [] kind = VC -> [d EXCEPT !.VC = record]
          [] kind = MC -> [d EXCEPT !.MC = Append(@, record)]
          [] kind = TC -> [d EXCEPT !.TC = record]
          [] OTHER -> [d EXCEPT !.UNKNOWN = Append(@, record)]

\* the longest file the model reads
MaxLines == 3

\* the contents of the lines of the files of the model (without terminator)
FileLines ==
    { HC \o <<"1", "2">>,
      HC \o <<"3">>,
      RC,
      NC \o <<"0", "a">>,
      NC \o <<"1", "b">>,
      VC \o <<"9">>,
      MC \o <<" ", "h", "i", " ", "0", "1", "2", "3", "4", "5", "6", "7", "8", "9">>,
      TC \o <<"1">>,
      <<"X", "X", " ">>,
      <<>> }

\* one iteration of `for line in f`: raw is the line as the file object yields
\* it, its "\n" included; only the last line of a file may lack the "\n"
ReadLine ==
    /\ ~eof
    /\ Len(file) < MaxLines
    /\ \E l \in FileLines :
        /\ file' = Append(file, l \o <<"\n">>)
        /\ data' = Dispatch(data, parse_line(rstrip_crlf(l \o <<"\n">>)))
    /\ UNCHANGED <<eof, rerun>>
    /\ UNCHANGED notRec

\* the last iteration, on a file that does not end with a line terminator
ReadLastLine ==
    /\ ~eof
    /\ Len(file) < MaxLines
    /\ \E l \in FileLines \ {<<>>} :
        /\ file' = Append(file, l)
        /\ data' = Dispatch(data, parse_line(rstrip_crlf(l)))
    /\ eof' = TRUE
    /\ UNCHANGED rerun
    /\ UNCHANGED notRec

\* the file is exhausted: return data
ReturnData ==
    /\ ~eof
    /\ eof' = TRUE
    /\ UNCHANGED <<file, data, rerun>>
    /\ UNCHANGED notRec

InitRec ==
    /\ file = <<>>
    /\ data = EmptyData
    /\ eof = FALSE
    /\ rerun = <<>>
    /\ IdleFn
    /\ IdleBem
    /\ IdleXml

NextRec == ReadLine \/ ReadLastLine \/ ReturnData

SpecRec == InitRec /\ [][NextRec]_vars

----------------------------------------------------------------------------
(* xml2Pydantic.py: the normalisers *)

\* the argument None of a helper that takes `str | None`
None == <<"<None>">>

Digits == {"0", "1", "2", "3", "4", "5", "6", "7", "8", "9"}

\* s.replace(old, new) for a one-character old; new is a str
RECURSIVE replace(_, _, _)
replace(s, old, new) ==
    IF s = <<>> THEN <<>>
    ELSE (IF Head(s) = old THEN new ELSE <<Head(s)>>)
         \o replace(Tail(s), old, new)

\* a digit string without its leading zeros, "0" when nothing else is left
RECURSIVE StripLeadingZeros(_)
StripLeadingZeros(ds) ==
    IF Len(ds) > 1 /\ Head(ds) = "0" THEN StripLeadingZeros(Tail(ds)) ELSE ds

\* the positions of the decimal points of a numeric string
PointsOf(s) == {i \in DOMAIN s : s[i] = "."}

\* decimal.Decimal(str): surrounding whitespace is ignored, then an optional
\* sign, then digits with at most one decimal point and at least one digit;
\* anything else raises InvalidOperation. The value is sign, coefficient
\* digits and exponent, as Decimal.as_tuple() gives them. (Within the
\* alphabet of the model: no exponent part, no underscore, no NaN/Infinity.)
Decimal(str) ==
    LET t == strip(str)
        signed == t # <<>> /\ Head(t) \in {"-", "+"}
        body == IF signed THEN Tail(t) ELSE t
        points == PointsOf(body)
        point == IF points = {} THEN Len(body) + 1 ELSE CHOOSE i \in points : TRUE
        int == SubSeq(body, 1, point - 1)
        frac == SubSeq(body, point + 1, Len(body))
        valid == /\ Cardinality(points) <= 1
                 /\ \A i \in DOMAIN body : body[i] \in Digits \cup {"."}
                 /\ Len(int) + Len(frac) >= 1
    IN  IF valid
        THEN [kind |-> "Decimal",
              sign |-> IF signed /\ Head(t) = "-" THEN 1 ELSE 0,
              digits |-> StripLeadingZeros(int \o frac),
              exp |-> 0 - Len(frac)]
        ELSE [kind |-> "InvalidOperation"]

\* Money(x): Money is condecimal(...), an annotated Decimal; calling it builds
\* a Decimal from x and checks no constraint. An exception passes through.
Money(x) == x

\* Money = condecimal(max_digits=14, decimal_places=2)
MAX_DIGITS == 14
DECIMAL_PLACES == 2

\* str(d) of a Decimal, as the JSON dump writes a money field: plain notation
\* (the exponents of the model are -3..0, where Python uses no "E")
DecimalStr(d) ==
    LET n == Len(d.digits)
        dotplace == d.exp + n
        minus == IF d.sign = 1 THEN <<"-">> ELSE <<>>
    IN  IF dotplace <= 0
        THEN minus \o <<"0", ".">> \o [i \in 1..(0 - dotplace) |-> "0"] \o d.digits
        ELSE IF dotplace >= n
        THEN minus \o d.digits \o [i \in 1..(dotplace - n) |-> "0"]
        ELSE minus \o SubSeq(d.digits, 1, dotplace) \o <<".">>
                   \o SubSeq(d.digits, dotplace + 1, n)

\* parse_money without the removal of the thousands separators
parse_money_keepsPoints(raw) ==
    LET r == strip(IF raw = None \/ raw = <<>> THEN <<"0", ",", "0", "0">> ELSE raw)
        clean == replace(r, ",", <<".">>)
    IN  Money(Decimal(clean))

\* parse_money(raw)
parse_money(raw) ==
    LET r == strip(IF raw = None \/ raw = <<>> THEN <<"0", ",", "0", "0">> ELSE raw)
        clean == replace(replace(r, ".", <<>>), ",", <<".">>)
    IN  Money(Decimal(clean))

\* str.upper(), on the letters of the model
upper(s) ==
    [i \in DOMAIN s |->
        CASE s[i] = "t" -> "T"
          [] s[i] = "d" -> "D"
          [] s[i] = "a" -> "A"
          [] s[i] = "v" -> "V"
          [] s[i] = "x" -> "X"
          [] OTHER -> s[i]]

\* BENEFICIARIO_MAP.get(key, default)
BENEFICIARIO_MAP(key, default) ==
    CASE key = <<"T">> -> "titular"
      [] key = <<"D">> -> "dependente"
      [] key = <<"A">> -> "alimentando"
      [] key = <<"V">> -> "alimentando"
      [] OTHER -> default

\* beneficiario_from_flag without the .upper()
beneficiario_from_flag_caseSensitive(flag) ==
    BENEFICIARIO_MAP(IF flag = None \/ flag = <<>> THEN <<"T">> ELSE flag, "titular")

\* beneficiario_from_flag(flag)
beneficiario_from_flag(flag) ==
    BENEFICIARIO_MAP(
        upper(IF flag = None \/ flag = <<>> THEN <<"T">> ELSE flag), "titular")

\* s.zfill(width): zeros go after a leading sign
zfill(s, width) ==
    IF Len(s) >= width THEN s
    ELSE LET zeros == [i \in 1..(width - Len(s)) |-> "0"]
         IN  IF s # <<>> /\ Head(s) \in {"+", "-"}
             THEN <<Head(s)>> \o zeros \o Tail(s)
             ELSE zeros \o s

\* normalise_codigo(cod)
normalise_codigo(cod) == IF cod # <<>> THEN zfill(cod, 2) ELSE cod

----------------------------------------------------------------------------
(* The pure helpers, each called on every input of a bounded set *)

\* every sequence over chars of length at most n
RECURSIVE StringsUpTo(_, _)
StringsUpTo(chars, n) ==
    IF n = 0 THEN {<<>>}
    ELSE LET shorter == StringsUpTo(chars, n - 1)
         IN  shorter \cup {Append(b, c) : b \in shorter, c \in chars}

\* the longest free body of a line given to parse_line
MaxBody == 3

\* the starts of the lines: every known prefix, the message prefix, unknown
\* ones, and ones shorter than a prefix
LinePrefixes ==
    {<<>>, <<"H">>, HC, RC, NC, VC, TC, MC, <<"X", "X">>, <<" ", "H">>,
     <<"h", "c">>}

\* a body of n characters, every third one a blank
Fill(n) == [i \in 1..n |-> IF i % 3 = 0 THEN " " ELSE "7"]

\* bodies that end inside, between and beyond the fields of the layouts
LongBodies == {Fill(n) : n \in {8, 9, 10, 11, 12, 14, 24, 56, 129, 204, 260}}

LineInputs ==
    {p \o b : p \in LinePrefixes,
              b \in StringsUpTo({"7", " "}, MaxBody) \cup LongBodies}

\* the most groups of three digits after the first group of an amount
MaxGroups == 4

\* the digit groups of the amounts of the model
FirstGroups == {<<"1">>, <<"9", "0">>, <<"9", "9", "9">>}
GroupDigits == {<<"0", "0", "0">>, <<"9", "0", "5">>}
Fractions == {<<"0", "0">>, <<"0", "5">>, <<"9", "0">>}

\* the integer parts with n further groups, each led by sep
RECURSIVE IntParts(_, _)
IntParts(n, sep) ==
    IF n = 0 THEN FirstGroups
    ELSE {i \o sep \o g : i \in IntParts(n - 1, sep), g \in GroupDigits}

\* amounts in locale notation: "." (or nothing) between the groups of three
\* digits, "," before exactly two fractional digits
LocaleAmounts ==
    {i \o <<",">> \o f :
        i \in {<<"0">>} \cup UNION {IntParts(n, <<".">>) \cup IntParts(n, <<>>) :
                                     n \in 0..MaxGroups},
        f \in Fractions}

\* other arguments: absent, blank, not numbers, other numbers of digits
OtherAmounts ==
    { None, <<>>, <<" ">>, <<"a">>, <<"-">>, <<",">>, <<"1", " ", "0">>,
      <<"1", ",", "5", ",", "0">>, <<",", "5">>, <<"5", ",">>, <<"5">>,
      <<"5", ",", "5">>, <<"1", ",", "5", "0", "5">>, <<"1", ".", "5">>,
      <<"-", "1", ",", "5", "0">>, <<" ", "7", ",", "0", "0", " ">>,
      <<"0", "0", "7", ",", "5", "0">> }

MoneyInputs == LocaleAmounts \cup OtherAmounts

\* the longest category code
MaxCode == 3
CodigoInputs == StringsUpTo({"0", "1", "7", "-"}, MaxCode)

\* the longest beneficiary flag
MaxFlag == 2
FlagInputs ==
    {None} \cup
    StringsUpTo({"T", "t", "D", "d", "A", "a", "V", "v", "X", "x", " "}, MaxFlag)

\* the arguments a helper is called on
InputsOf(f) ==
    CASE f = "parse_line" -> LineInputs
      [] f = "parse_money" -> MoneyInputs
      [] f = "normalise_codigo" -> CodigoInputs
      [] f = "beneficiario_from_flag" -> FlagInputs

Helpers ==
    {"parse_line", "parse_money", "normalise_codigo", "beneficiario_from_flag"}

CallParseLine ==
    /\ pc = "call" /\ fn = "parse_line"
    /\ ret' = parse_line(arg)
    /\ pc' = "return"
    /\ UNCHANGED <<fn, arg>>
    /\ UNCHANGED notFn

CallParseMoney ==
    /\ pc = "call" /\ fn = "parse_money"
    /\ ret' = parse_money(arg)
    /\ pc' = "return"
    /\ UNCHANGED <<fn, arg>>
    /\ UNCHANGED notFn

CallNormaliseCodigo ==
    /\ pc = "call" /\ fn = "normalise_codigo"
    /\ ret' = normalise_codigo(arg)
    /\ pc' = "return"
    /\ UNCHANGED <<fn, arg>>
    /\ UNCHANGED notFn

CallBeneficiarioFromFlag ==
    /\ pc = "call" /\ fn = "beneficiario_from_flag"
    /\ ret' = beneficiario_from_flag(arg)
    /\ pc' = "return"
    /\ UNCHANGED <<fn, arg>>
    /\ UNCHANGED notFn

InitFn ==
    /\ fn \in Helpers
    /\ arg \in InputsOf(fn)
    /\ ret = <<>>
    /\ pc = "call"
    /\ IdleRec
    /\ IdleBem
    /\ IdleXml

NextFn ==
    \/ CallParseLine
    \/ CallParseMoney
    \/ CallNormaliseCodigo
    \/ CallBeneficiarioFromFlag

SpecFn == InitFn /\ [][NextFn]_vars

\* helper f has returned
Returned(f) == pc = "return" /\ fn = f

----------------------------------------------------------------------------
(* IRPF_pydantic_schem_resumido.py: the construction of a BemDireito *)

\* Decimal.normalize(): the value without the trailing zeros of its coefficient
RECURSIVE normalize(_)
normalize(d) ==
    IF d.digits = <<"0">> THEN [d EXCEPT !.exp = 0]
    ELSE IF d.digits[Len(d.digits)] = "0"
    THEN normalize([d EXCEPT !.digits = SubSeq(@, 1, Len(@) - 1), !.exp = @ + 1])
    ELSE d

\* a Money that checks nothing
MoneyAccepts_unchecked(d) == TRUE

\* the validation of a Decimal against Money: the digits, the decimal places
\* and the whole digits of the normalized value are counted
MoneyAccepts(d) ==
    LET n == normalize(d)
        decimals == IF n.exp >= 0 THEN 0 ELSE 0 - n.exp
        digits == IF n.exp >= 0 THEN Len(n.digits) + n.exp
                  ELSE IF Len(n.digits) > decimals THEN Len(n.digits) ELSE decimals
    IN  /\ digits <= MAX_DIGITS
        /\ decimals <= DECIMAL_PLACES
        /\ digits - decimals <= MAX_DIGITS - DECIMAL_PLACES

\* the fields of BemDireito in the order of their definition: the name, the
\* key the constructor reads (the alias when there is one), the type, and
\* the default of a field that has one
BemFields == <<
    [name |-> "grupo", key |-> "grupo", type |-> "str", required |-> TRUE],
    [name |-> "codigo", key |-> "codigo", type |-> "str", required |-> TRUE],
    [name |-> "pais", key |-> "localizacao_pais", type |-> "str",
     required |-> FALSE, default |-> <<"1", "0", "5">>],
    [name |-> "discriminacao", key |-> "discriminacao", type |-> "str",
     required |-> TRUE],
    [name |-> "valor_2023", key |-> "situacao_31_12_2023", type |-> "Money",
     required |-> TRUE],
    [name |-> "valor_2024", key |-> "situacao_31_12_2024", type |-> "Money",
     required |-> TRUE],
    [name |-> "repetir_valor", key |-> "repetir_valor", type |-> "bool",
     required |-> FALSE, default |-> FALSE] >>

\* the validator auto_repeat of valor_2024: vals holds the fields validated
\* before valor_2024
auto_repeat(v, vals) ==
    IF "repetir_valor" \in DOMAIN vals /\ vals["repetir_valor"] = TRUE
    THEN vals["valor_2023"]
    ELSE v

\* TitDepAli = Literal["titular", "dependente", "alimentando"]
TitDepAli == {"titular", "dependente", "alimentando"}

\* the value of field fld given as v passes the validation of its type: a
\* Money is checked against its digits, a str is not None and has the
\* min_length of the field, a TitDepAli is one of the literals; an
\* Optional[str] takes None as well
TypeAccepts(fld, v) ==
    /\ fld.type = "Money" => MoneyAccepts(v)
    /\ fld.type = "str" =>
            /\ v # None
            /\ "min_length" \in DOMAIN fld => Len(v) >= fld.min_length
    /\ fld.type = "TitDepAli" => v \in TitDepAli

\* the validators that run on an accepted value v of field fld
AfterValidators(fld, v, vals) ==
    IF fld.name = "valor_2024" THEN auto_repeat(v, vals) ELSE v

\* m with key k set to v
Put(m, k, v) == [x \in DOMAIN m \cup {k} |-> IF x = k THEN v ELSE m[x]]

\* the amounts given to the constructor: valid ones, one with three decimal
\* places, one with 13 whole digits
BemAmounts ==
    { Decimal(<<"0", ".", "0", "0">>),
      Decimal(<<"1", "0", "0", ".", "0", "0">>),
      Decimal(<<"2", "5", "0", ".", "5">>),
      Decimal(<<"1", ".", "0", "0", "5">>),
      Decimal(<<"1", "0", "0", "0", "0", "0", "0", "0", "0", "0", "0", "0", "0",
                ".", "0", "0">>) }

\* the keyword arguments of the model: the codes and the description fixed,
\* the two amounts, the flag given or not, and the country given under the
\* alias, under the field name, or not at all
BemKwargs ==
    { LET base == [grupo |-> <<"0", "1">>, codigo |-> <<"1", "1">>,
                   discriminacao |-> <<"x">>,
                   situacao_31_12_2023 |-> v23, situacao_31_12_2024 |-> v24]
          flagged == IF rep = "absent" THEN base
                     ELSE Put(base, "repetir_valor", rep = "true")
      IN  IF pk = "absent" THEN flagged ELSE Put(flagged, pk, <<"2", "4", "9">>)
      : v23 \in BemAmounts, v24 \in BemAmounts,
        rep \in {"absent", "true", "false"},
        pk \in {"absent", "pais", "localizacao_pais"} }

\* the field the constructor validates next
BemFieldAt(name) == CHOOSE i \in DOMAIN BemFields : BemFields[i].name = name
BemPcAfter(i) == IF i < Len(BemFields) THEN BemFields[i + 1].name ELSE "finish"

\* one field is validated, in the order of the class: its key is looked up in
\* the arguments, the value is checked against the type, the validators of
\* the field run on the fields validated so far
ValidateField ==
    /\ bemPc \in {BemFields[i].name : i \in DOMAIN BemFields}
    /\ LET i == BemFieldAt(bemPc)
           fld == BemFields[i]
       IN  /\ IF fld.key \in DOMAIN kwargs
              THEN IF TypeAccepts(fld, kwargs[fld.key])
                   THEN /\ values' = Put(values, fld.name,
                                AfterValidators(fld, kwargs[fld.key], values))
                        /\ UNCHANGED errors
                   ELSE /\ errors' = errors \cup {fld.name}
                        /\ UNCHANGED values
              ELSE IF fld.required
                   THEN /\ errors' = errors \cup {fld.name}
                        /\ UNCHANGED values
                   ELSE /\ values' = Put(values, fld.name, fld.default)
                        /\ UNCHANGED errors
           /\ bemPc' = BemPcAfter(i)
    /\ UNCHANGED kwargs
    /\ UNCHANGED notBem

\* every field was validated: the object is built
Construct ==
    /\ bemPc = "finish"
    /\ errors = {}
    /\ bemPc' = "constructed"
    /\ UNCHANGED <<kwargs, values, errors>>
    /\ UNCHANGED notBem

\* a field failed: the constructor raises ValidationError
RaiseValidationError ==
    /\ bemPc = "finish"
    /\ errors # {}
    /\ bemPc' = "raised"
    /\ UNCHANGED <<kwargs, values, errors>>
    /\ UNCHANGED notBem

InitBem ==
    /\ kwargs \in BemKwargs
    /\ values = <<>>
    /\ errors = {}
    /\ bemPc = BemFields[1].name
    /\ IdleRec
    /\ IdleFn
    /\ IdleXml

NextBem == ValidateField \/ Construct \/ RaiseValidationError

SpecBem == InitBem /\ [][NextBem]_vars

----------------------------------------------------------------------------
(* xml2Pydantic.py: the document and the paths the extractors search *)

\* an lxml element: el.tag is "{uri}name", or "name" when the element is in
\* no namespace (uri = ""); el.attrib maps attribute names to str values
Element(uri, name, attrib, children) ==
    [uri |-> uri, name |-> name, attrib |-> attrib, children |-> children]

\* el.attrib.get(key): None when the attribute is absent
AttribGet(el, key) ==
    IF key \in DOMAIN el.attrib THEN el.attrib[key] ELSE None

\* el.attrib.get(key, default)
AttribGetOr(el, key, default) ==
    IF key \in DOMAIN el.attrib THEN el.attrib[key] ELSE default

\* el.tag.split("}", 1)[-1]: the tag without its namespace
LocalName(el) == el.name

\* root.tag.split("}")[0].strip("{"): the namespace of the root, and the
\* whole tag of a root that is in no namespace
NamespaceOf(root) == IF root.uri # "" THEN root.uri ELSE root.name

\* el.tag is what the step "rf:name" resolves to under {"rf": ns}
Matches(el, ns, name) == el.uri # "" /\ el.uri = ns /\ el.name = name

\* the concatenation of a sequence of sequences
RECURSIVE Flatten(_)
Flatten(ss) == IF ss = <<>> THEN <<>> ELSE Head(ss) \o Flatten(Tail(ss))

\* the descendants of el from its i-th child on, in document order, each
\* with its parent (what el.iter() visits after el, and getparent())
RECURSIVE IterFrom(_, _)
IterFrom(el, i) ==
    IF i > Len(el.children) THEN <<>>
    ELSE <<[el |-> el.children[i], parent |-> el]>>
         \o IterFrom(el.children[i], 1)
         \o IterFrom(el, i + 1)

\* the step ".//": every descendant of el
Descendants(el) == IterFrom(el, 1)

\* el.findall(".//rf:name", ns)
FindDescendants(el, ns, name) ==
    SelectSeq(Descendants(el), LAMBDA d : Matches(d.el, ns, name))

\* el.findall("rf:name", ns): the children of that tag
FindChildren(el, ns, name) ==
    SelectSeq(el.children, LAMBDA c : Matches(c, ns, name))

\* root.findall(".//rf:section/rf:item", ns)
FindSectionItems(root, ns, section) ==
    LET sections == FindDescendants(root, ns, section)
    IN  Flatten([i \in DOMAIN sections |->
                    FindChildren(sections[i].el, ns, "item")])

\* root.findall(f"{titular_path}|{depend_path}", ns), the two paths being
\* .//rf:colecaoRendPJTitular/rf:item and .//rf:colecaoRendPJDependente/rf:item:
\* ElementPath has no union; it reads the steps
\*   .// colecaoRendPJTitular / "item|." // colecaoRendPJDependente / item
\* and the second step asks for children whose tag is "{ns}item|."
FindUnionOfItems(root, ns) ==
    LET titular == FindDescendants(root, ns, "colecaoRendPJTitular")
        odd == Flatten([i \in DOMAIN titular |->
                    FindChildren(titular[i].el, ns, "item|.")])
        depend == Flatten([i \in DOMAIN odd |->
                    FindDescendants(odd[i], ns, "colecaoRendPJDependente")])
    IN  Flatten([i \in DOMAIN depend |->
                    FindChildren(depend[i].el, ns, "item")])

----------------------------------------------------------------------------
(* IRPF_pydantic_schem_resumido.py: the other record classes *)

\* Decimal("0.00"), the default of the optional money fields
ZeroMoney == Decimal(<<"0", ".", "0", "0">>)

DoacaoFields == <<
    [name |-> "codigo", key |-> "codigo", type |-> "str", required |-> TRUE],
    [name |-> "cnpj_proponente", key |-> "cnpj_proponente",
     type |-> "Optional[str]", required |-> FALSE, default |-> None],
    [name |-> "nome_proponente", key |-> "nome_proponente",
     type |-> "Optional[str]", required |-> FALSE, default |-> None],
    [name |-> "valor_pago", key |-> "valor_pago", type |-> "Money",
     required |-> TRUE] >>

PagamentoFields == <<
    [name |-> "codigo", key |-> "codigo", type |-> "str", required |-> TRUE],
    [name |-> "pessoa_beneficiada", key |-> "pessoa_beneficiada",
     type |-> "TitDepAli", required |-> FALSE, default |-> "titular"],
    [name |-> "cpf_prestador", key |-> "cpf_cnpj_prestador",
     type |-> "Optional[str]", required |-> FALSE, default |-> None],
    [name |-> "nome_prestador", key |-> "nome_prestador",
     type |-> "Optional[str]", required |-> FALSE, default |-> None],
    [name |-> "descricao", key |-> "descricao",
     type |-> "Optional[str]", required |-> FALSE, default |-> None],
    [name |-> "valor_pago", key |-> "valor_pago", type |-> "Money",
     required |-> TRUE],
    [name |-> "parcela_nao_dedutivel", key |-> "parcela_nao_dedutivel",
     type |-> "Money", required |-> FALSE, default |-> ZeroMoney] >>

\* (the type "tag" is a str that is the name of an element, never None)
RendExclusivoFields == <<
    [name |-> "tipo_rendimento", key |-> "tipo_rendimento", type |-> "tag",
     required |-> TRUE],
    [name |-> "tipo_beneficiario", key |-> "tipo_beneficiario",
     type |-> "TitDepAli", required |-> FALSE, default |-> "titular"],
    [name |-> "beneficiario", key |-> "beneficiario",
     type |-> "Optional[str]", required |-> FALSE, default |-> None],
    [name |-> "cnpj_fonte_pagadora", key |-> "cnpj_fonte_pagadora",
     type |-> "str", required |-> TRUE],
    [name |-> "nome_fonte_pagadora", key |-> "nome_fonte_pagadora",
     type |-> "str", required |-> TRUE],
    [name |-> "valor", key |-> "valor", type |-> "Money", required |-> TRUE] >>

RendIsentoFields == <<
    [name |-> "tipo_rendimento", key |-> "tipo_rendimento", type |-> "tag",
     required |-> TRUE],
    [name |-> "tipo_beneficiario", key |-> "tipo_beneficiario",
     type |-> "TitDepAli", required |-> FALSE, default |-> "titular"],
    [name |-> "beneficiario", key |-> "beneficiario",
     type |-> "Optional[str]", required |-> FALSE, default |-> None],
    [name |-> "cnpj_fonte_pagadora", key |-> "cnpj_fonte_pagadora",
     type |-> "Optional[str]", required |-> FALSE, default |-> None],
    [name |-> "nome_fonte_pagadora", key |-> "nome_fonte_pagadora",
     type |-> "Optional[str]", required |-> FALSE, default |-> None],
    [name |-> "valor", key |-> "valor", type |-> "Money", required |-> TRUE] >>

RendTribPJFields == <<
    [name |-> "cpf_cnpj_fonte_pagadora", key |-> "cpf_cnpj_fonte_pagadora",
     type |-> "str", required |-> TRUE],
    [name |-> "nome_fonte_pagadora", key |-> "nome_fonte_pagadora",
     type |-> "str", required |-> TRUE],
    [name |-> "rendimentos", key |-> "rendimentos", type |-> "Money",
     required |-> TRUE],
    [name |-> "contribuicao_previdenciaria",
     key |-> "contribuicao_previdenciaria", type |-> "Money",
     required |-> FALSE, default |-> ZeroMoney],
    [name |-> "imposto_retido", key |-> "imposto_retido", type |-> "Money",
     required |-> FALSE, default |-> ZeroMoney],
    [name |-> "decimo_terceiro", key |-> "decimo_terceiro_salario",
     type |-> "Money", required |-> FALSE, default |-> ZeroMoney],
    [name |-> "irrf_decimo_terceiro", key |-> "irrf_decimo_terceiro",
     type |-> "Money", required |-> FALSE, default |-> ZeroMoney] >>

SummaryFields == <<
    [name |-> "text", key |-> "text", type |-> "str", required |-> TRUE,
     min_length |-> 1] >>

\* the six collections default to a new empty list; the summary is required
DeclaracaoFields == <<
    [name |-> "bens_direitos", key |-> "bens_direitos", type |-> "List",
     required |-> FALSE, default |-> <<>>],
    [name |-> "doacoes_efetuadas", key |-> "doacoes_efetuadas",
     type |-> "List", required |-> FALSE, default |-> <<>>],
    [name |-> "pagamentos_efetuados", key |-> "pagamentos_efetuados",
     type |-> "List", required |-> FALSE, default |-> <<>>],
    [name |-> "rendimentos_exclusivos", key |-> "rendimentos_exclusivos",
     type |-> "List", required |-> FALSE, default |-> <<>>],
    [name |-> "rendimentos_isentos", key |-> "rendimentos_isentos",
     type |-> "List", required |-> FALSE, default |-> <<>>],
    [name |-> "rendimentos_tributaveis_pj",
     key |-> "rendimentos_tributaveis_pj", type |-> "List",
     required |-> FALSE, default |-> <<>>],
    [name |-> "summary", key |-> "summary", type |-> "Summary",
     required |-> TRUE] >>

\* the fields of a class
FieldsOf(cls) ==
    CASE cls = "BemDireito" -> BemFields
      [] cls = "DoacaoEfetuada" -> DoacaoFields
      [] cls = "PagamentoEfetuado" -> PagamentoFields
      [] cls = "RendExclusivo" -> RendExclusivoFields
      [] cls = "RendIsento" -> RendIsentoFields
      [] cls = "RendTribPJ" -> RendTribPJFields
      [] cls = "Summary" -> SummaryFields
      [] cls = "DeclaracaoIRPF2025" -> DeclaracaoFields

\* the validation of the fields from the i-th on, as ValidateField does one
\* field at a time: the values validated and the fields that failed
RECURSIVE ValidateFrom(_, _, _, _, _)
ValidateFrom(fields, i, kw, vals, errs) ==
    IF i > Len(fields) THEN [values |-> vals, errors |-> errs]
    ELSE LET fld == fields[i]
         IN  IF fld.key \in DOMAIN kw
             THEN IF TypeAccepts(fld, kw[fld.key])
                  THEN ValidateFrom(fields, i + 1, kw,
                           Put(vals, fld.name,
                               AfterValidators(fld, kw[fld.key], vals)),
                           errs)
                  ELSE ValidateFrom(fields, i + 1, kw, vals,
                                    errs \cup {fld.name})
             ELSE IF fld.required
                  THEN ValidateFrom(fields, i + 1, kw, vals,
                                    errs \cup {fld.name})
                  ELSE ValidateFrom(fields, i + 1, kw,
                                    Put(vals, fld.name, fld.default), errs)

\* cls(**kw): the object, or the ValidationError the constructor raises
New(cls, kw) ==
    LET v == ValidateFrom(FieldsOf(cls), 1, kw, <<>>, {})
    IN  IF v.errors = {}
        THEN [kind |-> "object", cls |-> cls, values |-> v.values]
        ELSE [kind |-> "ValidationError", cls |-> cls, errors |-> v.errors]

\* what a call may raise
Exceptions ==
    {"InvalidOperation", "ValidationError", "KeyError", "XMLSyntaxError"}
Raised(x) == x.kind \in Exceptions

----------------------------------------------------------------------------
(* xml2Pydantic.py: the six schedule extractors *)

\* (a variant that returns the first attribute that is present, empty or not)
first_attrib_firstPresent(el, attrs) ==
    LET present == {i \in DOMAIN attrs : attrs[i] \in DOMAIN el.attrib}
    IN  IF present = {} THEN None
        ELSE el.attrib[attrs[CHOOSE i \in present : \A k \in present : i <= k]]

\* first_attrib(el, *attrs): the first attribute that is present and not
\* empty, None when there is none
RECURSIVE first_attrib(_, _)
first_attrib(el, attrs) ==
    IF attrs = <<>> THEN None
    ELSE LET v == AttribGet(el, Head(attrs))
         IN  IF v # None /\ v # <<>> THEN v ELSE first_attrib(el, Tail(attrs))

\* `x or ""`
OrEmpty(x) == IF x = None THEN <<>> ELSE x

\* `x or None`
OrNone(x) == IF x = <<>> THEN None ELSE x

\* the first of the arguments, taken in the order they are written, that
\* raised; <<>> when none did
RECURSIVE FirstRaised(_)
FirstRaised(args) ==
    IF args = <<>> THEN <<>>
    ELSE IF Raised(Head(args)) THEN Head(args) ELSE FirstRaised(Tail(args))

\* the loop `for item in ...: rows.append(Cls(...))`: the list of the
\* records, or the exception of the first item whose construction raised
\* (the list built so far is a local and is lost)
Collect(rows) ==
    LET bad == {i \in DOMAIN rows : Raised(rows[i])}
    IN  IF bad = {} THEN [kind |-> "list", items |-> rows]
        ELSE rows[CHOOSE i \in bad : \A j \in bad : i <= j]

\* (a variant without the neutral codes: an empty code is normalised as it is)
BemOf_noPlaceholder(item) ==
    LET grupo == strip(OrEmpty(AttribGet(item, "grupo")))
        codigo == strip(OrEmpty(AttribGet(item, "codigo")))
        v2023 == parse_money(AttribGet(item, "valorExercicioAnterior"))
        v2024 == parse_money(AttribGet(item, "valorExercicioAtual"))
        raised == FirstRaised(<<v2023, v2024>>)
    IN  IF raised # <<>> THEN raised
        ELSE New("BemDireito",
                 [grupo |-> normalise_codigo(grupo),
                  codigo |-> normalise_codigo(codigo),
                  pais |-> AttribGetOr(item, "pais", <<"1", "0", "5">>),
                  discriminacao |-> strip(OrEmpty(AttribGet(item, "discriminacao"))),
                  situacao_31_12_2023 |-> v2023,
                  situacao_31_12_2024 |-> v2024,
                  repetir_valor |-> FALSE])

\* the BemDireito(...) of one item of parse_bens
BemOf(item) ==
    LET grupo0 == strip(OrEmpty(AttribGet(item, "grupo")))
        codigo0 == strip(OrEmpty(AttribGet(item, "codigo")))
        placeholder == grupo0 = <<>> \/ codigo0 = <<>>
        grupo == IF placeholder /\ grupo0 = <<>> THEN <<"0", "0">> ELSE grupo0
        codigo == IF placeholder /\ codigo0 = <<>> THEN <<"0", "0">> ELSE codigo0
        v2023 == parse_money(AttribGet(item, "valorExercicioAnterior"))
        v2024 == parse_money(AttribGet(item, "valorExercicioAtual"))
        raised == FirstRaised(<<v2023, v2024>>)
    IN  IF raised # <<>> THEN raised
        ELSE New("BemDireito",
                 [grupo |-> normalise_codigo(grupo),
                  codigo |-> normalise_codigo(codigo),
                  pais |-> AttribGetOr(item, "pais", <<"1", "0", "5">>),
                  discriminacao |-> strip(OrEmpty(AttribGet(item, "discriminacao"))),
                  situacao_31_12_2023 |-> v2023,
                  situacao_31_12_2024 |-> v2024,
                  repetir_valor |-> FALSE])

\* what the loop of parse_bens builds, item by item
BemRows(root, ns) ==
    LET items == FindSectionItems(root, ns, "bens")
    IN  [i \in DOMAIN items |-> BemOf(items[i])]

\* parse_bens(root, ns)
parse_bens(root, ns) == Collect(BemRows(root, ns))

\* the PagamentoEfetuado(...) of one item of parse_pagamentos
PagamentoOf(item) ==
    LET valor == parse_money(AttribGet(item, "valorPago"))
        parcela == parse_money(AttribGet(item, "parcelaNaoDedutivel"))
        raised == FirstRaised(<<valor, parcela>>)
    IN  IF raised # <<>> THEN raised
        ELSE New("PagamentoEfetuado",
                 [codigo |-> normalise_codigo(AttribGetOr(item, "codigo", <<>>)),
                  pessoa_beneficiada |->
                      beneficiario_from_flag(AttribGet(item, "tipo")),
                  cpf_cnpj_prestador |->
                      first_attrib(item, <<"niBeneficiario", "cpfPrestador">>),
                  nome_prestador |->
                      first_attrib(item, <<"nomeBeneficiario", "nomePrestador">>),
                  descricao |-> OrNone(AttribGet(item, "descricao")),
                  valor_pago |-> valor,
                  parcela_nao_dedutivel |-> parcela])

\* what the loop of parse_pagamentos builds, item by item
PagamentoRows(root, ns) ==
    LET items == FindSectionItems(root, ns, "pagamentos")
    IN  [i \in DOMAIN items |-> PagamentoOf(items[i])]

\* parse_pagamentos(root, ns)
parse_pagamentos(root, ns) == Collect(PagamentoRows(root, ns))

\* the DoacaoEfetuada(...) of one item of parse_doacoes
DoacaoOf(item) ==
    LET valor == parse_money(AttribGet(item, "valorPago"))
    IN  IF Raised(valor) THEN valor
        ELSE New("DoacaoEfetuada",
                 [codigo |-> AttribGetOr(item, "codigo", <<>>),
                  cnpj_proponente |-> AttribGet(item, "cnpjProponente"),
                  nome_proponente |-> AttribGet(item, "nomeProponente"),
                  valor_pago |-> valor])

\* what the loop of parse_doacoes builds, item by item
DoacaoRows(root, ns) ==
    LET items == FindSectionItems(root, ns, "doacoes")
    IN  [i \in DOMAIN items |-> DoacaoOf(items[i])]

\* parse_doacoes(root, ns)
parse_doacoes(root, ns) == Collect(DoacaoRows(root, ns))

\* item.attrib[key]: KeyError when the attribute is absent
AttribItem(item, key) ==
    IF key \in DOMAIN item.attrib
    THEN [kind |-> "str", value |-> item.attrib[key]]
    ELSE [kind |-> "KeyError", key |-> key]

\* the RendTribPJ(...) of one item of parse_rend_trib_pj; decimo_terceiro is
\* given under the name of the field, whose key is its alias
RendTribPJOf(item) ==
    LET ni == AttribItem(item, "NIFontePagadora")
        nome == AttribItem(item, "nomeFontePagadora")
        rendimentos == parse_money(AttribGet(item, "rendRecebidoPJ"))
        contribuicao == parse_money(AttribGet(item, "contribuicaoPrevOficial"))
        imposto == parse_money(AttribGet(item, "impostoRetidoFonte"))
        decimo == parse_money(AttribGet(item, "decimoTerceiro"))
        irrf == parse_money(AttribGet(item, "IRRFDecimoTerceiro"))
        raised == FirstRaised(<<ni, nome, rendimentos, contribuicao, imposto,
                                decimo, irrf>>)
    IN  IF raised # <<>> THEN raised
        ELSE New("RendTribPJ",
                 [cpf_cnpj_fonte_pagadora |-> ni.value,
                  nome_fonte_pagadora |-> nome.value,
                  rendimentos |-> rendimentos,
                  contribuicao_previdenciaria |-> contribuicao,
                  imposto_retido |-> imposto,
                  decimo_terceiro |-> decimo,
                  irrf_decimo_terceiro |-> irrf])

\* what the loop of parse_rend_trib_pj builds, item by item
RendTribPJRows(root, ns) ==
    LET items == FindUnionOfItems(root, ns)
    IN  [i \in DOMAIN items |-> RendTribPJOf(items[i])]

\* parse_rend_trib_pj(root, ns)
parse_rend_trib_pj(root, ns) == Collect(RendTribPJRows(root, ns))

\* tag.endswith("QuadroAuxiliar"), on the tag names of the model
endswith_QuadroAuxiliar(name) ==
    name \in {"lucrosDividendosQuadroAuxiliar", "rendAplicacoesQuadroAuxiliar"}

\* the RendIsento(...) of one item of the panel quadro
RendIsentoOf(quadro, item) ==
    LET valor == parse_money(AttribGet(item, "valor"))
    IN  IF Raised(valor) THEN valor
        ELSE New("RendIsento",
                 [tipo_rendimento |-> LocalName(quadro),
                  tipo_beneficiario |->
                      beneficiario_from_flag(AttribGet(item, "tipoBeneficiario")),
                  beneficiario |-> AttribGet(item, "cpfBeneficiario"),
                  cnpj_fonte_pagadora |-> AttribGet(item, "cnpjEmpresa"),
                  nome_fonte_pagadora |->
                      first_attrib(item, <<"nomeFonte", "descricaoRendimento">>),
                  valor |-> valor])

\* (a variant that takes every item below the section, whatever holds it)
RendIsentoFound_anyDepth(root, ns) ==
    LET sections == FindDescendants(root, ns, "rendIsentos")
    IN  Flatten([i \in DOMAIN sections |->
                    FindDescendants(sections[i].el, ns, "item")])

\* the items parse_rend_isentos visits, each with its panel: every element
\* below a rendIsentos whose tag ends with QuadroAuxiliar gives its item
\* children
RendIsentoFound(root, ns) ==
    LET sections == FindDescendants(root, ns, "rendIsentos")
        below == Flatten([i \in DOMAIN sections |-> Descendants(sections[i].el)])
        quadros == SelectSeq(below, LAMBDA d : endswith_QuadroAuxiliar(d.el.name))
    IN  Flatten([q \in DOMAIN quadros |->
            LET items == FindChildren(quadros[q].el, ns, "item")
            IN  [i \in DOMAIN items |-> [el |-> items[i], parent |-> quadros[q].el]]])

\* what the loops of parse_rend_isentos build, item by item
RendIsentoRows(root, ns) ==
    LET items == RendIsentoFound(root, ns)
    IN  [i \in DOMAIN items |-> RendIsentoOf(items[i].parent, items[i].el)]

\* parse_rend_isentos(root, ns)
parse_rend_isentos(root, ns) == Collect(RendIsentoRows(root, ns))

\* the RendExclusivo(...) of one item, whose parent names the type
RendExclusivoOf(parent, item) ==
    LET valor == parse_money(AttribGet(item, "valor"))
    IN  IF Raised(valor) THEN valor
        ELSE New("RendExclusivo",
                 [tipo_rendimento |-> LocalName(parent),
                  tipo_beneficiario |->
                      beneficiario_from_flag(AttribGet(item, "tipoBeneficiario")),
                  beneficiario |-> AttribGet(item, "cpfBeneficiario"),
                  cnpj_fonte_pagadora |-> AttribGet(item, "cnpjEmpresa"),
                  nome_fonte_pagadora |-> AttribGet(item, "nomeFonte"),
                  valor |-> valor])

\* the items parse_rend_exclusivos visits, each with its parent: every item
\* below a rendTributacaoExclusiva, at any depth
RendExclusivoFound(root, ns) ==
    LET sections == FindDescendants(root, ns, "rendTributacaoExclusiva")
    IN  Flatten([i \in DOMAIN sections |->
                    FindDescendants(sections[i].el, ns, "item")])

\* what the loops of parse_rend_exclusivos build, item by item
RendExclusivoRows(root, ns) ==
    LET items == RendExclusivoFound(root, ns)
    IN  [i \in DOMAIN items |-> RendExclusivoOf(items[i].parent, items[i].el)]

\* parse_rend_exclusivos(root, ns)
parse_rend_exclusivos(root, ns) == Collect(RendExclusivoRows(root, ns))

----------------------------------------------------------------------------
(* xml2Pydantic.py: parse_irpf2025; server_small.py: read_tax_return *)

\* the pieces of f"Declaração IRPF-2025 de {nome} (CPF {cpf})."
SummaryHead ==
    <<"D", "e", "c", "l", "a", "r", "a", "ç", "ã", "o", " ", "I", "R",
    "P", "F", "-", "2", "0", "2", "5", " ", "d", "e", " ">>
SummaryMid == <<" ", "(", "C", "P", "F", " ">>
SummaryTail == <<")", ".">>

\* the summary sentence without the test `if ident is not None`: nothing to
\* format when the element is absent
SummaryText_unguarded(root, ns) ==
    LET found == FindDescendants(root, ns, "identificadorDeclaracao")
    IN  IF found = <<>> THEN None
        ELSE SummaryHead
             \o AttribGetOr(found[1].el, "nome",
                            <<"d", "e", "c", "l", "a", "r", "a", "n", "t", "e">>)
             \o SummaryMid
             \o AttribGetOr(found[1].el, "cpf", <<"?", "?", "?">>)
             \o SummaryTail

\* the summary sentence of parse_irpf2025: cpf and nome come from the first
\* identificadorDeclaracao below the root, "???" and "declarante" when the
\* element or the attribute is absent
SummaryText(root, ns) ==
    LET found == FindDescendants(root, ns, "identificadorDeclaracao")
        cpf == IF found = <<>> THEN <<"?", "?", "?">>
               ELSE AttribGetOr(found[1].el, "cpf", <<"?", "?", "?">>)
        nome == IF found = <<>> THEN <<"d", "e", "c", "l", "a", "r", "a", "n", "t", "e">>
                ELSE AttribGetOr(found[1].el, "nome",
                                 <<"d", "e", "c", "l", "a", "r", "a", "n", "t", "e">>)
    IN  SummaryHead \o nome \o SummaryMid \o cpf \o SummaryTail

\* the type of field f of class cls
TypeOfField(cls, f) ==
    LET fs == FieldsOf(cls)
    IN  fs[CHOOSE i \in DOMAIN fs : fs[i].name = f].type

\* obj.model_dump(mode="json") of a record: the fields under their names, a
\* Decimal written as str(d)
DumpRecord(obj) ==
    [f \in DOMAIN obj.values |->
        IF TypeOfField(obj.cls, f) = "Money" THEN DecimalStr(obj.values[f])
        ELSE obj.values[f]]

\* decl.model_dump(mode="json") of a DeclaracaoIRPF2025
model_dump(decl) ==
    [f \in DOMAIN decl.values |->
        IF f = "summary" THEN DumpRecord(decl.values[f])
        ELSE [i \in DOMAIN decl.values[f] |-> DumpRecord(decl.values[f][i])]]

\* the locals of parse_irpf2025 in the order they are assigned
Schedules ==
    <<"bens", "pagamentos", "doacoes", "rend_trib_pj", "rend_isentos",
      "rend_exclusivos">>

\* the statement after the assignment of the i-th schedule
XpcAfter(i) == IF i < Len(Schedules) THEN Schedules[i + 1] ELSE "summary"

\* the list of an extractor shared by all the calls: it starts as the
\* earlier call left it
StartList_shared(earlier, name) ==
    IF earlier # <<>> /\ name \in DOMAIN earlier[1].locals
    THEN earlier[1].locals[name]
    ELSE <<>>

\* `rows = []` at the start of an extractor: a new list at every call,
\* whatever the earlier calls built
StartList(earlier, name) == <<>>

\* `name = parse_name(root, ns)`: the list is kept, or the exception leaves
\* parse_irpf2025
AssignSchedule(i, r) ==
    /\ xpc = Schedules[i]
    /\ IF Raised(r)
       THEN /\ result' = r
            /\ xpc' = "raised"
            /\ UNCHANGED locals
       ELSE /\ locals' = Put(locals, Schedules[i],
                              StartList(calls, Schedules[i]) \o r.items)
            /\ xpc' = XpcAfter(i)
            /\ UNCHANGED result
    /\ UNCHANGED <<doc, response, calls>>
    /\ UNCHANGED notXml

\* read_tax_return: the file of the tax return does not exist
FileNotFound ==
    /\ xpc = "call"
    /\ ~doc.exists
    /\ response' = [kind |-> "error", error |-> "Tax return file not found"]
    /\ xpc' = "responded"
    /\ UNCHANGED <<doc, locals, result, calls>>
    /\ UNCHANGED notXml

\* read_tax_return calls parse_irpf2025; ET.parse raises on a document that
\* is not well-formed, else root and ns are set
ParseXml ==
    /\ xpc = "call"
    /\ doc.exists
    /\ IF doc.wellformed
       THEN /\ locals' = [ns |-> NamespaceOf(doc.root)]
            /\ xpc' = Schedules[1]
            /\ UNCHANGED result
       ELSE /\ result' = [kind |-> "XMLSyntaxError"]
            /\ xpc' = "raised"
            /\ UNCHANGED locals
    /\ UNCHANGED <<doc, response, calls>>
    /\ UNCHANGED notXml

ParseBens == AssignSchedule(1, parse_bens(doc.root, locals.ns))
ParsePagamentos == AssignSchedule(2, parse_pagamentos(doc.root, locals.ns))
ParseDoacoes == AssignSchedule(3, parse_doacoes(doc.root, locals.ns))
ParseRendTribPJ == AssignSchedule(4, parse_rend_trib_pj(doc.root, locals.ns))
ParseRendIsentos == AssignSchedule(5, parse_rend_isentos(doc.root, locals.ns))
ParseRendExclusivos ==
    AssignSchedule(6, parse_rend_exclusivos(doc.root, locals.ns))

\* the summary is built and the DeclaracaoIRPF2025 is returned
Assemble ==
    /\ xpc = "summary"
    /\ LET resumo == New("Summary", [text |-> SummaryText(doc.root, locals.ns)])
           decl == New("DeclaracaoIRPF2025",
                       [bens_direitos |-> locals.bens,
                        doacoes_efetuadas |-> locals.doacoes,
                        pagamentos_efetuados |-> locals.pagamentos,
                        rendimentos_exclusivos |-> locals.rend_exclusivos,
                        rendimentos_isentos |-> locals.rend_isentos,
                        rendimentos_tributaveis_pj |-> locals.rend_trib_pj,
                        summary |-> resumo])
       IN  IF Raised(resumo)
           THEN result' = resumo /\ xpc' = "raised"
           ELSE result' = decl /\ xpc' = IF Raised(decl) THEN "raised" ELSE "returned"
    /\ UNCHANGED <<doc, locals, response, calls>>
    /\ UNCHANGED notXml

\* read_tax_return returns json.dumps(decl.model_dump(mode="json"))
ReturnJson ==
    /\ xpc = "returned"
    /\ response' = [kind |-> "declaration", body |-> model_dump(result)]
    /\ xpc' = "responded"
    /\ UNCHANGED <<doc, locals, result, calls>>
    /\ UNCHANGED notXml

\* `except Exception as e` of read_tax_return: whatever parse_irpf2025
\* raised becomes {"error": f"Failed to read tax return: {str(e)}"}
ReturnError ==
    /\ xpc = "raised"
    /\ response' = [kind |-> "error", error |-> "Failed to read tax return",
                    exception |-> result.kind]
    /\ xpc' = "responded"
    /\ UNCHANGED <<doc, locals, result, calls>>
    /\ UNCHANGED notXml

----------------------------------------------------------------------------
(* The documents read_tax_return is called on *)

\* the namespace the declaration file declares at its root
RF == "rf"

\* an element of the declaration with no attribute of its own
Node(uri, name, children) == Element(uri, name, <<>>, children)

\* an item with the given attributes
Item(uri, attrib) == Element(uri, "item", attrib, <<>>)

\* the items of the payments section: a plain one, a one-digit code and a
\* whole amount, no code and one decimal, a non-deductible part above the
\* amount, three decimals (a trailing zero, then not), no amount, and a
\* malformed and an out-of-range amount between two good items, and three
\* items that name the provider twice: the first name empty and the second
\* punctuated, both given, both empty
PagamentoItems == <<
    <<[codigo |-> <<"2", "1">>, tipo |-> <<"d">>, niBeneficiario |-> <<"1", "2", "3">>,
       valorPago |-> <<"1", "0", "0", ",", "0", "0">>]>>,
    <<[codigo |-> <<"1">>, cpfPrestador |-> <<"4", "5", "6">>, valorPago |-> <<"5">>,
       parcelaNaoDedutivel |-> <<"0", ",", "0", "0">>]>>,
    <<[valorPago |-> <<"5", ",", "5">>, descricao |-> <<>>]>>,
    <<[codigo |-> <<"2", "1">>, valorPago |-> <<"1", "0", "0", ",", "0", "0">>,
       parcelaNaoDedutivel |-> <<"2", "0", "0", ",", "0", "0">>]>>,
    <<[codigo |-> <<"2", "1">>, valorPago |-> <<"1", ",", "5", "0", "0">>]>>,
    <<[codigo |-> <<"2", "1">>, valorPago |-> <<"1", ",", "5", "0", "5">>]>>,
    <<[codigo |-> <<"2", "1">>]>>,
    <<[codigo |-> <<"1", "0">>, valorPago |-> <<"1", "0", "0", ",", "0", "0">>],
      [codigo |-> <<"1", "1">>, valorPago |-> <<"x">>],
      [codigo |-> <<"1", "2">>, valorPago |-> <<"2", "0", "0", ",", "0", "0">>]>>,
    <<[codigo |-> <<"1", "0">>, valorPago |-> <<"1", "0", "0", ",", "0", "0">>],
      [codigo |-> <<"1", "1">>,
       valorPago |-> <<"1", ".", "0", "0", "0", ".", "0", "0", "0", ".",
                       "0", "0", "0", ".", "0", "0", "0", ",", "0", "0">>],
      [codigo |-> <<"1", "2">>, valorPago |-> <<"2", "0", "0", ",", "0", "0">>]>>,
    <<[codigo |-> <<"2", "1">>,
       niBeneficiario |-> <<>>,
       cpfPrestador |-> <<"4", ".", "5", "-", "6">>,
       nomeBeneficiario |-> <<>>,
       nomePrestador |-> <<"b">>,
       valorPago |-> <<"1", "0", "0", ",", "0", "0">>],
      [codigo |-> <<"2", "1">>,
       niBeneficiario |-> <<"1", "2">>,
       cpfPrestador |-> <<"4", "5">>,
       nomeBeneficiario |-> <<"a">>,
       nomePrestador |-> <<"b">>,
       valorPago |-> <<"1", "0", "0", ",", "0", "0">>],
      [codigo |-> <<"2", "1">>,
       niBeneficiario |-> <<>>,
       cpfPrestador |-> <<>>,
       nomePrestador |-> <<>>,
       valorPago |-> <<"1", "0", "0", ",", "0", "0">>]>> >>

DoacaoItems == <<
    <<[codigo |-> <<"4", "0">>,
       cnpjProponente |-> <<"7", "8", "9">>,
       valorPago |-> <<"5", "0", ",", "0", "0">>]>>,
    <<[codigo |-> <<"1">>, valorPago |-> <<"5">>]>>,
    <<[valorPago |-> <<"5", "0", ",", "0", "0">>]>>,
    <<[codigo |-> <<"4", "0">>, valorPago |-> <<"1", ",", "5", "0", "5">>]>> >>

\* the items of the assets section: codes of one and two digits and a
\* country, no attribute but an empty description, a blank group, a
\* malformed amount, and three items whose codes are empty, absent, three
\* digits long or padded with a space
BemItems == <<
    <<[grupo |-> <<"1">>,
       codigo |-> <<"1", "1">>,
       pais |-> <<"2", "4", "9">>,
       discriminacao |-> <<" ", "x", " ">>,
       valorExercicioAnterior |-> <<"1", "0", "0", ",", "0", "0">>,
       valorExercicioAtual |-> <<"2", "0", "0", ",", "0", "0">>]>>,
    <<[discriminacao |-> <<>>]>>,
    <<[grupo |-> <<" ">>,
       codigo |-> <<"3">>,
       valorExercicioAtual |-> <<"5", ",", "5">>]>>,
    <<[grupo |-> <<"0", "1">>,
       codigo |-> <<"1", "1">>,
       valorExercicioAnterior |-> <<"x">>]>>,
    <<[grupo |-> <<"1", "2">>, codigo |-> <<>>],
      [grupo |-> <<"1", "2", "3">>],
      [codigo |-> <<" ", "7">>, pais |-> <<"2", "4", "9">>]>> >>

RendTribPJItems == <<
    <<[NIFontePagadora |-> <<"1", "2", "3">>, nomeFontePagadora |-> <<"a">>,
       rendRecebidoPJ |-> <<"1", "0", "0", ",", "0", "0">>]>>,
    <<[nomeFontePagadora |-> <<"a">>,
       rendRecebidoPJ |-> <<"1", "0", "0", ",", "0", "0">>]>> >>

RendIsentoItems == <<
    <<[tipoBeneficiario |-> <<"T">>,
       cnpjEmpresa |-> <<"1", "2", "3">>,
       nomeFonte |-> <<"a">>,
       valor |-> <<"1", "0", "0", ",", "0", "0">>],
      [descricaoRendimento |-> <<"b">>, valor |-> <<"5">>]>>,
    <<[valor |-> <<"1", "0", "0", ",", "0", "0">>], [valor |-> <<"x">>]>> >>

RendExclusivoItems == <<
    <<[cnpjEmpresa |-> <<"1", "2", "3">>,
       nomeFonte |-> <<"a">>,
       valor |-> <<"1", "0", "0", ",", "0", "0">>]>>,
    <<[nomeFonte |-> <<"a">>, valor |-> <<"1", "0", "0", ",", "0", "0">>]>>,
    <<[cnpjEmpresa |-> <<"1", "2", "3">>, valor |-> <<"1", "0", "0", ",", "0", "0">>]>>,
    <<[cnpjEmpresa |-> <<"1", "2", "3">>,
       nomeFonte |-> <<"a">>,
       valor |-> <<"1", "0", "0", ",", "0", "0">>],
      [nomeFonte |-> <<"b">>, valor |-> <<"2", "0", "0", ",", "0", "0">>],
      [cnpjEmpresa |-> <<"4", "5", "6">>,
       nomeFonte |-> <<"c">>,
       valor |-> <<"5", ",", "5">>]>> >>

\* the items as elements of namespace uri
ItemsOf(uri, attribs) == [i \in DOMAIN attribs |-> Item(uri, attribs[i])]

\* an exempt-income section that holds more than panels of items: an item of
\* its own, a panel, a container that is no panel (with an item and, deeper,
\* a panel), and a second panel
MixedIsentos(uri) ==
    Node(uri, "rendIsentos",
         <<Item(uri, [valor |-> <<"1", ",", "0", "0">>]),
           Node(uri, "lucrosDividendosQuadroAuxiliar",
                <<Item(uri, [valor |-> <<"2", ",", "0", "0">>])>>),
           Node(uri, "outrosRendimentos",
                <<Item(uri, [valor |-> <<"3", ",", "0", "0">>]),
                  Node(uri, "rendAplicacoesQuadroAuxiliar",
                       <<Item(uri, [valor |-> <<"4", ",", "0", "0">>])>>)>>),
           Node(uri, "rendAplicacoesQuadroAuxiliar",
                <<Item(uri, [valor |-> <<"5", ",", "0", "0">>]),
                  Item(uri, [valor |-> <<"6", ",", "0", "0">>])>>)>>)

\* an exclusive-income section likewise: an item of its own, a panel, and a
\* container that is no panel
MixedExclusivos(uri) ==
    Node(uri, "rendTributacaoExclusiva",
         <<Item(uri, [cnpjEmpresa |-> <<"1">>, nomeFonte |-> <<"a">>,
                      valor |-> <<"1", ",", "0", "0">>]),
           Node(uri, "rendAplicacoesQuadroAuxiliar",
                <<Item(uri, [cnpjEmpresa |-> <<"2">>, nomeFonte |-> <<"b">>,
                             valor |-> <<"2", ",", "0", "0">>])>>),
           Node(uri, "outrosRendimentos",
                <<Item(uri, [cnpjEmpresa |-> <<"3">>, nomeFonte |-> <<"c">>,
                             valor |-> <<"3", ",", "0", "0">>])>>)>>)

\* the sections a document may hold, by schedule, in the order of Schedules
SectionVariants(uri) == <<
    {Node(uri, "bens", ItemsOf(uri, BemItems[v])) : v \in DOMAIN BemItems},
    {Node(uri, "pagamentos", ItemsOf(uri, PagamentoItems[v])) :
        v \in DOMAIN PagamentoItems},
    {Node(uri, "doacoes", ItemsOf(uri, DoacaoItems[v])) : v \in DOMAIN DoacaoItems},
    {Node(uri, "rendPJ",
          <<Node(uri, "colecaoRendPJTitular", ItemsOf(uri, RendTribPJItems[v])),
            Node(uri, "colecaoRendPJDependente",
                 ItemsOf(uri, RendTribPJItems[1]))>>) :
        v \in DOMAIN RendTribPJItems},
    {Node(uri, "rendIsentos",
          <<Node(uri, "lucrosDividendosQuadroAuxiliar",
                 ItemsOf(uri, RendIsentoItems[v]))>>) :
        v \in DOMAIN RendIsentoItems} \cup {MixedIsentos(uri)},
    {Node(uri, "rendTributacaoExclusiva",
          <<Node(uri, "rendAplicacoesQuadroAuxiliar",
                 ItemsOf(uri, RendExclusivoItems[v]))>>) :
        v \in DOMAIN RendExclusivoItems} \cup {MixedExclusivos(uri)} >>

\* the most sections of a document of the model that hold items
MaxSections == 2

\* the choices of at most n sections among the schedules from the i-th on
RECURSIVE SectionsFrom(_, _, _)
SectionsFrom(uri, i, n) ==
    IF i > Len(Schedules) THEN {<<>>}
    ELSE SectionsFrom(uri, i + 1, n)
         \cup (IF n = 0 THEN {}
               ELSE {<<s>> \o rest : s \in SectionVariants(uri)[i],
                                     rest \in SectionsFrom(uri, i + 1, n - 1)})

\* the identification element: absent, without attributes, with the cpf
\* only, with both
Identifications(uri) ==
    { <<>>,
      <<Element(uri, "identificadorDeclaracao", <<>>, <<>>)>>,
      <<Element(uri, "identificadorDeclaracao", [cpf |-> <<"1", "2", "3">>], <<>>)>>,
      <<Element(uri, "identificadorDeclaracao",
                [cpf |-> <<"1", "2", "3">>, nome |-> <<"a", "n", "a">>], <<>>)>> }

\* a file that holds a well-formed document
Document(root) == [exists |-> TRUE, wellformed |-> TRUE, root |-> root]

\* no file at the path of the tax return
NoFile == [exists |-> FALSE]

\* a file that is not well-formed XML
NotXml == [exists |-> TRUE, wellformed |-> FALSE]

\* the well-formed documents: the root in the namespace of the declaration
\* or in none (and with it every element below)
WellFormedDocs ==
    { Document(Element(RF, "declaracao", <<>>, ident \o sections)) :
        ident \in Identifications(RF),
        sections \in SectionsFrom(RF, 1, MaxSections) }
    \cup
    { Document(Element("", "declaracao", <<>>, ident \o sections)) :
        ident \in Identifications(""),
        sections \in SectionsFrom("", 1, 1) }

Docs == {NoFile, NotXml} \cup WellFormedDocs

InitXml ==
    /\ doc \in Docs
    /\ xpc = "call"
    /\ locals = <<>>
    /\ result = <<>>
    /\ response = <<>>
    /\ calls = <<>>
    /\ IdleRec
    /\ IdleFn
    /\ IdleBem

NextXml ==
    \/ FileNotFound
    \/ ParseXml
    \/ ParseBens
    \/ ParsePagamentos
    \/ ParseDoacoes
    \/ ParseRendTribPJ
    \/ ParseRendIsentos
    \/ ParseRendExclusivos
    \/ Assemble
    \/ ReturnJson
    \/ ReturnError

SpecXml == InitXml /\ [][NextXml]_vars

----------------------------------------------------------------------------
(* read_tax_return called again; parse_rec_file run again *)

\* the documents of the calls that come in pairs: no file, no XML, a root in
\* no namespace, and the declarations with at most one section
CallDocs ==
    {NoFile, NotXml, Document(Element("", "declaracao", <<>>, <<>>))}
    \cup { Document(Element(RF, "declaracao", <<>>, sections)) :
            sections \in SectionsFrom(RF, 1, 1) }

\* the tool is called once more, on the file as it is by then; the call
\* before is remembered with what it built
CallAgain ==
    /\ xpc = "responded"
    /\ calls = <<>>
    /\ calls' = <<[doc |-> doc, locals |-> locals, response |-> response]>>
    /\ doc' \in CallDocs
    /\ xpc' = "call"
    /\ locals' = <<>>
    /\ result' = <<>>
    /\ response' = <<>>
    /\ UNCHANGED notXml

InitCalls ==
    /\ doc \in CallDocs
    /\ xpc = "call"
    /\ locals = <<>>
    /\ result = <<>>
    /\ response = <<>>
    /\ calls = <<>>
    /\ IdleRec
    /\ IdleFn
    /\ IdleBem

NextCalls == NextXml \/ CallAgain

SpecCalls == InitCalls /\ [][NextCalls]_vars

\* the bundle shared by all the runs: a run starts with what the run before
\* left in it
NewData_shared(previous) == previous

\* `data = {...}` at the start of parse_rec_file: a new bundle at every run,
\* whatever the run before left
NewData(previous) == EmptyData

\* parse_rec_file is called again on the same file
ParseFileAgain ==
    /\ eof
    /\ rerun = <<>>
    /\ rerun' = [at |-> 0, data |-> NewData(data)]
    /\ UNCHANGED <<file, data, eof>>
    /\ UNCHANGED notRec

\* one iteration of the loop of the second run: the next line of the file
ReadLineAgain ==
    /\ rerun # <<>>
    /\ rerun.at < Len(file)
    /\ rerun' = [at |-> rerun.at + 1,
                 data |-> Dispatch(rerun.data,
                                   parse_line(rstrip_crlf(file[rerun.at + 1])))]
    /\ UNCHANGED <<file, data, eof>>
    /\ UNCHANGED notRec

\* either parser, run twice
InitTwice == InitRec \/ InitCalls

\* the steps of the decoder are those of a behaviour that started it
NextTwice ==
    \/ data # <<>> /\ (NextRec \/ ParseFileAgain \/ ReadLineAgain)
    \/ NextCalls

SpecTwice == InitTwice /\ [][NextTwice]_vars

----------------------------------------------------------------------------
(* What the properties below say about a file, read off the raw lines *)

\* a raw line without its line terminator
ContentOf(raw) ==
    IF raw # <<>> /\ raw[Len(raw)] = "\n" THEN SubSeq(raw, 1, Len(raw) - 1)
    ELSE raw

\* the first two characters of a line (fewer when the line is shorter)
PrefixOf(l) == SubSeq(l, 1, IF Len(l) < 2 THEN Len(l) ELSE 2)

KnownPrefixes == {HC, RC, NC, VC, MC, TC}
SingletonTypes == {"HC", "RC", "VC", "TC"}
TypeName(t) ==
    CASE t = "HC" -> HC [] t = "RC" -> RC [] t = "VC" -> VC [] t = "TC" -> TC

\* the positions in the file of the lines of one type, and of no known type
LinesOfType(t) == {i \in DOMAIN file : PrefixOf(ContentOf(file[i])) = t}
UnknownLines ==
    {i \in DOMAIN file : PrefixOf(ContentOf(file[i])) \notin KnownPrefixes}

\* the decodings of the lines of type t of f, in the order of f
RECURSIVE DecodedOfType(_, _)
DecodedOfType(f, t) ==
    IF f = <<>> THEN <<>>
    ELSE (IF PrefixOf(ContentOf(Head(f))) = t
          THEN <<parse_line(ContentOf(Head(f)))>>
          ELSE <<>>) \o DecodedOfType(Tail(f), t)

\* r is l without its leading and trailing whitespace
IsTrimOf(r, l) ==
    /\ r = <<>> \/ (r[1] \notin Whitespace /\ r[Len(r)] \notin Whitespace)
    /\ \E a \in 0..Len(l) :
        /\ a + Len(r) <= Len(l)
        /\ SubSeq(l, a + 1, a + Len(r)) = r
        /\ \A k \in 1..a : l[k] \in Whitespace
        /\ \A k \in (a + Len(r) + 1)..Len(l) : l[k] \in Whitespace

----------------------------------------------------------------------------
(* C1: after any sequence of lines, the NC, MC and UNKNOWN lists hold exactly
   one record per line of their classification, a singleton slot is filled
   exactly when a line of its type was read, every line with no known prefix
   (the empty line too) added one record to UNKNOWN, and UNKNOWN is empty
   when every line has a known prefix. *)
C1_EveryLineOneRecord ==
    /\ Len(data.NC) = Cardinality(LinesOfType(NC))
    /\ Len(data.MC) = Cardinality(LinesOfType(MC))
    /\ Len(data.UNKNOWN) = Cardinality(UnknownLines)
    /\ \A t \in SingletonTypes :
        (data[t] # EmptyRecord) <=> (LinesOfType(TypeName(t)) # {})
    /\ (UnknownLines = {}) => (data.UNKNOWN = <<>>)

\* a file with an empty line, another unknown line and a message
C1_Witness ==
    /\ Len(file) = 3
    /\ \E i \in DOMAIN file : ContentOf(file[i]) = <<>>
    /\ Cardinality(UnknownLines) = 2
    /\ Len(data.UNKNOWN) = 2
    /\ Len(data.MC) = 1

(* C2: the NC list and the MC list hold the decodings of the NC lines and of
   the MC lines in the order of the file, nothing reordered or deduplicated. *)
C2_FileOrder ==
    /\ data.NC = DecodedOfType(file, NC)
    /\ data.MC = DecodedOfType(file, MC)

\* three notification lines, the first and the third the same line
C2_Witness ==
    /\ Len(data.NC) = 3
    /\ data.NC[1] # data.NC[2]
    /\ data.NC[1] = data.NC[3]

(* C3: each singleton slot HC, RC, VC, TC is the decoding of the last line of
   its type, and the empty record when the file has no line of the type. *)
C3_LastWriteWins ==
    \A t \in SingletonTypes :
        LET at == LinesOfType(TypeName(t))
        IN  data[t] =
                IF at = {} THEN EmptyRecord
                ELSE parse_line(ContentOf(
                        file[CHOOSE i \in at : \A j \in at : j <= i]))

\* two different header lines were read; the slot holds the second
C3_Witness ==
    /\ Cardinality(LinesOfType(HC)) = 2
    /\ \E i, j \in LinesOfType(HC) :
        /\ i < j
        /\ parse_line(ContentOf(file[i])) # parse_line(ContentOf(file[j]))
        /\ data.HC = parse_line(ContentOf(file[j]))
    /\ data.RC = EmptyRecord

(* C4, as the code has it: for a line with no known prefix parse_line returns
   an UNKNOWN record whose RAW field is the line without its leading and
   trailing whitespace. *)
C4_RawIsTrimmedLine ==
    (Returned("parse_line") /\ PrefixOf(arg) \notin KnownPrefixes) =>
        /\ DOMAIN ret = {"TP_REG", "RAW"}
        /\ ret.TP_REG = UNKNOWN
        /\ IsTrimOf(ret.RAW, arg)

\* an unknown line with whitespace at an end was decoded
C4_Witness ==
    /\ Returned("parse_line")
    /\ PrefixOf(arg) \notin KnownPrefixes
    /\ Len(arg) >= 3
    /\ arg[Len(arg)] \in Whitespace
    /\ ret.RAW # <<>>

(* C4, as claimed: the RAW field of the record of a line with no known prefix
   equals the line character for character. *)
C4_RawIsLine ==
    (Returned("parse_line") /\ PrefixOf(arg) \notin KnownPrefixes) =>
        ret.RAW = arg

(* C5: parse_line returns a record for a line of any length; for a line with
   a layout prefix the record has every field of the layout, a field whose
   columns lie wholly beyond the end of the line is empty, and a field partly
   beyond the end holds (trimmed) only the characters the line has. *)
C5_ShortLines ==
    Returned("parse_line") =>
        /\ "TP_REG" \in DOMAIN ret
        /\ PrefixOf(arg) \in LayoutKeys =>
            LET layout == LAYOUTS(PrefixOf(arg))
            IN  /\ DOMAIN ret = FieldNames(layout)
                /\ \A i \in DOMAIN layout :
                    LET f == layout[i][1]
                        start == layout[i][2]
                        end == layout[i][3]
                        last == IF end < Len(arg) THEN end ELSE Len(arg)
                    IN  /\ start >= Len(arg) => ret[f] = <<>>
                        /\ start < Len(arg) =>
                            IsTrimOf(ret[f], SubSeq(arg, start + 1, last))

\* a header line that ends inside its second field was decoded
C5_Witness ==
    /\ Returned("parse_line")
    /\ PrefixOf(arg) = HC
    /\ Len(arg) = 5
    /\ ret["NR_CPF_CNPJ"] # <<>>
    /\ ret["NR_CONTROLE"] = <<>>

----------------------------------------------------------------------------
(* What the properties below say about an amount, read off its characters *)

\* the digit characters of s, in order
DigitsIn(s) == SelectSeq(s, LAMBDA c : c \in Digits)

\* the characters of s before and after its first ","
CommaAt(s) == CHOOSE i \in DOMAIN s : s[i] = "," /\ \A j \in 1..(i - 1) : s[j] # ","
IntDigitsOf(s) == DigitsIn(SubSeq(s, 1, CommaAt(s) - 1))
FracDigitsOf(s) == DigitsIn(SubSeq(s, CommaAt(s) + 1, Len(s)))

\* the canonical form of a locale amount: no separators, "." as the point
Canonical(s) == StripLeadingZeros(IntDigitsOf(s)) \o <<".">> \o FracDigitsOf(s)

\* the digits before the point of a Decimal value
WholeDigits(d) == IF Len(d.digits) + d.exp > 0 THEN Len(d.digits) + d.exp ELSE 0

(* C6: for a locale amount with at most 12 integer digits and exactly 2
   fractional digits parse_money returns the exact value: its integer cents
   are the digits of the amount, and written back it is the canonical form. *)
C6_MoneyRoundTrip ==
    (/\ Returned("parse_money")
     /\ arg \in LocaleAmounts
     /\ Len(IntDigitsOf(arg)) <= MAX_DIGITS - DECIMAL_PLACES) =>
        /\ ret.kind = "Decimal"
        /\ ret.sign = 0
        /\ ret.exp = 0 - DECIMAL_PLACES
        /\ ret.digits = StripLeadingZeros(DigitsIn(arg))
        /\ DecimalStr(ret) = Canonical(arg)

\* an amount of 12 integer digits with thousands separators was normalised
C6_Witness ==
    /\ Returned("parse_money")
    /\ arg \in LocaleAmounts
    /\ Len(IntDigitsOf(arg)) = MAX_DIGITS - DECIMAL_PLACES
    /\ \E i \in DOMAIN arg : arg[i] = "."
    /\ ret.kind = "Decimal"
    /\ DecimalStr(ret) = Canonical(arg)

(* C7: parse_money itself fails, and returns no value, for every argument
   whose cleaned string is not a decimal or whose value has more than 12
   integer digits: it never returns a value outside the bound. *)
C7_FailsOutsideBound ==
    Returned("parse_money") =>
        /\ ret.kind = "Decimal" => WholeDigits(ret) <= MAX_DIGITS - DECIMAL_PLACES
        /\ (/\ arg # None
            /\ \E i \in DOMAIN arg : arg[i] \notin Digits \cup {".", ",", "-", "+"})
            => ret.kind = "InvalidOperation"

(* C8: normalise_codigo pads a code with zeros on the left to width 2 and
   maps the empty code to "00": "" -> "00", "1" -> "01", "11" -> "11", and
   every result is non-empty and at least 2 long. *)
C8_CodigoWidthTwo ==
    Returned("normalise_codigo") =>
        /\ arg = <<>> => ret = <<"0", "0">>
        /\ arg = <<"1">> => ret = <<"0", "1">>
        /\ arg = <<"1", "1">> => ret = <<"1", "1">>
        /\ Len(ret) >= 2

(* C9: beneficiario_from_flag is total and case-insensitive: T/t give
   titular, D/d dependente, A/a and V/v alimentando, and None, the empty
   string and every other flag give titular. *)
C9_FlagMapping ==
    Returned("beneficiario_from_flag") =>
        /\ ret \in {"titular", "dependente", "alimentando"}
        /\ ret = (CASE arg \in {<<"T">>, <<"t">>} -> "titular"
                    [] arg \in {<<"D">>, <<"d">>} -> "dependente"
                    [] arg \in {<<"A">>, <<"a">>, <<"V">>, <<"v">>} -> "alimentando"
                    [] OTHER -> "titular")

\* the lower-case flag "v" was mapped
C9_Witness ==
    /\ Returned("beneficiario_from_flag")
    /\ arg = <<"v">>
    /\ ret = "alimentando"

(* C10: every constructed BemDireito whose repetir_valor is true has
   valor_2024 equal to valor_2023, whatever the two values given. *)
C10_CarryForward ==
    (bemPc = "constructed" /\ values["repetir_valor"] = TRUE) =>
        normalize(values["valor_2024"]) = normalize(values["valor_2023"])

----------------------------------------------------------------------------
(* What the properties below say about a document, read off its elements *)

\* the call has returned for a document that ET.parse reads
Responded == xpc = "responded" /\ doc.exists /\ doc.wellformed

\* the rows that are records
Built(rows) == SelectSeq(rows, LAMBDA r : ~Raised(r))

\* the rows of every schedule of a document, in the order of Schedules
RowsOf(d) ==
    LET ns == NamespaceOf(d.root)
    IN  <<BemRows(d.root, ns), PagamentoRows(d.root, ns),
          DoacaoRows(d.root, ns), RendTribPJRows(d.root, ns),
          RendIsentoRows(d.root, ns), RendExclusivoRows(d.root, ns)>>
RowsOfDoc == RowsOf(doc)

\* the exclusive-income items of the document that have no cnpjEmpresa
WithoutPayerId ==
    LET found == RendExclusivoFound(doc.root, NamespaceOf(doc.root))
    IN  {i \in DOMAIN found : "cnpjEmpresa" \notin DOMAIN found[i].el.attrib}

(* C11: when an exclusive-income item has no cnpjEmpresa, only that item
   fails and extraction is not aborted: the call still returns a
   declaration, which holds every exempt-income record of the document and
   the exclusive-income records of the other items. *)
C11_OnlyItemFails ==
    (Responded /\ WithoutPayerId # {}) =>
        /\ response.kind = "declaration"
        /\ Len(response.body.rendimentos_isentos) = Len(Built(RowsOfDoc[5]))
        /\ Len(response.body.rendimentos_exclusivos) = Len(Built(RowsOfDoc[6]))

\* the field of the declaration that holds each schedule of Schedules
DeclField ==
    <<"bens_direitos", "pagamentos_efetuados", "doacoes_efetuadas",
      "rendimentos_tributaveis_pj", "rendimentos_isentos",
      "rendimentos_exclusivos">>

\* the money fields of a class
MoneyFieldsOf(cls) ==
    {FieldsOf(cls)[i].name : i \in {j \in DOMAIN FieldsOf(cls) :
                                        FieldsOf(cls)[j].type = "Money"}}

\* the construction of the row failed on an amount: the attribute is no
\* decimal, or the value is outside the range of Money
BadAmount(row) ==
    \/ row.kind = "InvalidOperation"
    \/ row.kind = "ValidationError" /\ row.errors \subseteq MoneyFieldsOf(row.cls)

(* C12: when the amount of an item is malformed or out of range, the
   extractor records the error and goes on: the call returns a declaration
   in which every schedule holds the records of all its well-formed items,
   those before and those after the bad one. *)
C12_ContinuesAfterBadAmount ==
    (/\ Responded
     /\ \E i \in DOMAIN RowsOfDoc :
            \E j \in DOMAIN RowsOfDoc[i] : BadAmount(RowsOfDoc[i][j]))
    => /\ response.kind = "declaration"
       /\ \A i \in DOMAIN RowsOfDoc :
            Len(response.body[DeclField[i]]) = Len(Built(RowsOfDoc[i]))

\* the document cannot be parsed, or its root is not in the namespace of the
\* declaration
StructurallyInvalid(d) == d.exists /\ (~d.wellformed \/ d.root.uri # RF)

(* C13: parse_irpf2025 fails, and returns no Declaration (not even an empty
   one), whenever the document cannot be parsed or its root lacks the
   expected namespace. *)
C13_StructuralErrorIsFatal ==
    xpc \in {"returned", "raised"} =>
        (StructurallyInvalid(doc) => xpc = "raised" /\ result.kind # "object")

\* the identification elements the summary may read
Identifiers ==
    SelectSeq(Descendants(doc.root),
              LAMBDA d : Matches(d.el, NamespaceOf(doc.root),
                                 "identificadorDeclaracao"))

\* the sentence the summary must be: the cpf and the name of the first
\* identification element, "???" and "declarante" for what is missing
ExpectedSummary ==
    LET cpf == IF Identifiers # <<>> /\ "cpf" \in DOMAIN Identifiers[1].el.attrib
               THEN Identifiers[1].el.attrib.cpf
               ELSE <<"?", "?", "?">>
        nome == IF Identifiers # <<>> /\ "nome" \in DOMAIN Identifiers[1].el.attrib
                THEN Identifiers[1].el.attrib.nome
                ELSE <<"d", "e", "c", "l", "a", "r", "a", "n", "t", "e">>
    IN  SummaryHead \o nome \o SummaryMid \o cpf \o SummaryTail

\* no schedule of the document has an item the extractors find
AllSchedulesEmpty == \A i \in DOMAIN RowsOfDoc : RowsOfDoc[i] = <<>>

(* C14: for a well-formed document parse_irpf2025 succeeds when the six
   schedules are empty, whether or not the identification element and its
   cpf and nome are there ("???" and "declarante" stand in); every
   Declaration returned has a non-empty summary text and six collections
   that are lists of records, possibly empty, never None. *)
C14_EmptyDeclarationIsValid ==
    /\ (xpc \in {"returned", "raised"} /\ doc.wellformed /\ AllSchedulesEmpty)
        => xpc = "returned"
    /\ xpc = "returned" =>
        /\ result.kind = "object"
        /\ result.values.summary.values.text # <<>>
        /\ result.values.summary.values.text = ExpectedSummary
        /\ \A i \in DOMAIN DeclField :
            /\ DeclField[i] \in DOMAIN result.values
            /\ DOMAIN result.values[DeclField[i]]
                 = 1..Len(result.values[DeclField[i]])
            /\ \A j \in DOMAIN result.values[DeclField[i]] :
                 result.values[DeclField[i]][j].kind = "object"

\* a declaration with no schedule and no identification element was returned
C14_Witness ==
    /\ xpc = "returned"
    /\ doc.root.uri = RF
    /\ doc.root.children = <<>>
    /\ \A i \in DOMAIN DeclField : result.values[DeclField[i]] = <<>>
    /\ result.values.summary.values.text = ExpectedSummary

\* which of the cases of a parse a document is: it cannot be read as a
\* declaration, some of its items fail, or all is well
CaseOf(d) ==
    IF ~d.exists THEN "no file"
    ELSE IF StructurallyInvalid(d) THEN "structurally invalid input"
    ELSE IF \E i \in DOMAIN RowsOf(d) :
                \E j \in DOMAIN RowsOf(d)[i] : Raised(RowsOf(d)[i][j])
    THEN "parsed with per-item warnings"
    ELSE "fully parsed"

(* C15: what a call hands back tells the three cases apart: two documents of
   different cases among "fully parsed", "parsed with per-item warnings" and
   "structurally invalid input" never get the same kind of response; a
   document with good and malformed items is never answered like one that is
   structurally invalid. *)
C15_OutcomesDistinguishable ==
    (xpc = "responded" /\ calls # <<>>) =>
        LET before == CaseOf(calls[1].doc)
            now == CaseOf(doc)
        IN  (before # now /\ "no file" \notin {before, now})
                => calls[1].response.kind # response.kind

(* C16: parsing is deterministic: a second run of parse_rec_file over the
   same lines returns a bundle equal to the first, and a second call on the
   same document returns a response equal to the first (the same serialized
   declaration or the same error), whatever the earlier run left behind. *)
C16_Deterministic ==
    /\ (rerun # <<>> /\ rerun.at = Len(file)) => rerun.data = data
    /\ (xpc = "responded" /\ calls # <<>> /\ calls[1].doc = doc)
        => response = calls[1].response

\* a declaration with three payments was read twice
C16_Witness ==
    /\ xpc = "responded"
    /\ calls # <<>>
    /\ calls[1].doc = doc
    /\ response.kind = "declaration"
    /\ Len(response.body.pagamentos_efetuados) = 1
    /\ Len(calls[1].locals.pagamentos) = 1

\* the items each extractor visits, in the order of Schedules
FoundIn(d) ==
    LET ns == NamespaceOf(d.root)
        isentos == RendIsentoFound(d.root, ns)
        exclusivos == RendExclusivoFound(d.root, ns)
    IN  <<FindSectionItems(d.root, ns, "bens"),
          FindSectionItems(d.root, ns, "pagamentos"),
          FindSectionItems(d.root, ns, "doacoes"),
          FindUnionOfItems(d.root, ns),
          [i \in DOMAIN isentos |-> isentos[i].el],
          [i \in DOMAIN exclusivos |-> exclusivos[i].el]>>

\* the attributes of an item that hold an amount, in the order of Schedules
MoneyAttribs ==
    <<{"valorExercicioAnterior", "valorExercicioAtual"},
      {"valorPago", "parcelaNaoDedutivel"},
      {"valorPago"},
      {"rendRecebidoPJ", "contribuicaoPrevOficial", "impostoRetidoFonte",
       "decimoTerceiro", "IRRFDecimoTerceiro"},
      {"valor"},
      {"valor"}>>

\* the amounts the items of the document give, as parse_money reads them
AmountsGiven(d) ==
    UNION { UNION { { parse_money(FoundIn(d)[i][j].attrib[a]) :
                        a \in MoneyAttribs[i] \cap DOMAIN FoundIn(d)[i][j].attrib }
                    : j \in DOMAIN FoundIn(d)[i] }
            : i \in DOMAIN MoneyAttribs }

\* the values of the money fields of the records of a declaration
MoneyHeld(decl) ==
    UNION { UNION { { decl.values[DeclField[i]][j].values[f] :
                        f \in MoneyFieldsOf(decl.values[DeclField[i]][j].cls) }
                    : j \in DOMAIN decl.values[DeclField[i]] }
            : i \in DOMAIN DeclField }

\* the digits after the point of a Decimal value, as it is written
FractionDigits(d) == IF d.exp < 0 THEN 0 - d.exp ELSE 0

\* a value with at most 2 fractional and 12 integer digits
WithinMoney(d) ==
    /\ FractionDigits(d) <= DECIMAL_PLACES
    /\ WholeDigits(d) <= MAX_DIGITS - DECIMAL_PLACES

(* C17, as the code has it: every money field of every record of a returned
   declaration holds a value that, its trailing zeros aside, has at most 2
   fractional digits and at most 12 integer digits; no declaration is
   returned for a document that gives an amount whose value has, trailing
   zeros aside, 3 or more fractional digits or 13 or more integer digits:
   nothing is rounded. An amount such as "1,500" is accepted and held with
   all the digits it was written with. *)
C17_MoneyWithinDigitsNormalized ==
    xpc = "returned" =>
        /\ \A v \in MoneyHeld(result) : WithinMoney(normalize(v))
        /\ \A v \in AmountsGiven(doc) :
            v.kind = "Decimal" /\ WithinMoney(normalize(v)) /\ v \in MoneyHeld(result)

\* a declaration was returned that holds 1.500, given as "1,500"
C17_Witness ==
    /\ xpc = "returned"
    /\ \E v \in MoneyHeld(result) :
        /\ v.digits = <<"1", "5", "0", "0">>
        /\ v.exp = 0 - 3
        /\ v \in AmountsGiven(doc)

(* C17, as claimed: every money field of every record of a returned
   declaration holds a value with at most 2 fractional digits and at most 12
   integer digits, and no declaration is returned for a document that gives
   an amount with 3 or more fractional digits or 13 or more integer
   digits. *)
C17_MoneyWithinDigits ==
    xpc = "returned" =>
        /\ \A v \in MoneyHeld(result) : WithinMoney(v)
        /\ \A v \in AmountsGiven(doc) : v.kind = "Decimal" /\ WithinMoney(v)

\* the class of the records of each schedule, in the order of Schedules
ClassOf ==
    <<"BemDireito", "PagamentoEfetuado", "DoacaoEfetuada", "RendTribPJ",
      "RendIsento", "RendExclusivo">>

\* the money fields of the serialized declaration, as they are written
MoneyWritten(body) ==
    UNION { UNION { { body[DeclField[i]][j][f] : f \in MoneyFieldsOf(ClassOf[i]) }
                    : j \in DOMAIN body[DeclField[i]] }
            : i \in DOMAIN DeclField }

\* s is written with exactly 2 digits after the point
TwoDecimals(s) ==
    /\ Len(s) >= DECIMAL_PLACES + 2
    /\ s[Len(s) - DECIMAL_PLACES] = "."
    /\ \A k \in (Len(s) - DECIMAL_PLACES + 1)..Len(s) : s[k] \in Digits
    /\ \A k \in 1..(Len(s) - DECIMAL_PLACES - 1) : s[k] \in Digits \cup {"-"}

(* C18: in the serialized declaration every money field is written with
   exactly 2 decimal digits, whatever the accepted amount was given as: "5",
   "5,5", or nothing at all. *)
C18_TwoDecimalsWritten ==
    (xpc = "responded" /\ response.kind = "declaration") =>
        \A s \in MoneyWritten(response.body) : TwoDecimals(s)

\* the code attributes of an item and the fields that hold them, by schedule
CodeFields ==
    <<{[attr |-> "grupo", field |-> "grupo"],
       [attr |-> "codigo", field |-> "codigo"]},
      {[attr |-> "codigo", field |-> "codigo"]},
      {[attr |-> "codigo", field |-> "codigo"]}>>

(* C19: every category code held by a record of a returned declaration (the
   group and the code of an asset, the code of a payment, the code of a
   donation) is non-empty and at least 2 long, padded with zeros on the
   left; an item whose code attribute is absent or empty holds "00". *)
C19_CodesPadded ==
    xpc = "returned" =>
        \A i \in DOMAIN CodeFields :
            \A j \in DOMAIN result.values[DeclField[i]] :
                \A c \in CodeFields[i] :
                    LET held == result.values[DeclField[i]][j].values[c.field]
                        given == strip(OrEmpty(AttribGet(FoundIn(doc)[i][j], c.attr)))
                    IN  /\ Len(held) >= 2
                        /\ given = <<>> => held = <<"0", "0">>
                        /\ Len(given) = 1 => held = <<"0">> \o given

\* the value of a digit character
DigitValue(c) ==
    CHOOSE n \in 0..9 :
        <<"0", "1", "2", "3", "4", "5", "6", "7", "8", "9">>[n + 1] = c

\* the coefficient of a Decimal at exponent e, e no greater than its own
ScaledDigits(d, e) ==
    StripLeadingZeros(d.digits \o [k \in 1..(d.exp - e) |-> "0"])

\* x <= y for two digit strings without leading zeros
DigitsLeq(x, y) ==
    \/ Len(x) < Len(y)
    \/ /\ Len(x) = Len(y)
       /\ \/ x = y
          \/ \E k \in DOMAIN x :
                /\ \A m \in 1..(k - 1) : x[m] = y[m]
                /\ DigitValue(x[k]) < DigitValue(y[k])

\* a <= b for two Decimal values
DecimalLeq(a, b) ==
    LET e == IF a.exp < b.exp THEN a.exp ELSE b.exp
        x == ScaledDigits(a, e)
        y == ScaledDigits(b, e)
        zero(z) == z = <<"0">>
    IN  CASE a.sign = 0 /\ b.sign = 0 -> DigitsLeq(x, y)
          [] a.sign = 1 /\ b.sign = 1 -> DigitsLeq(y, x)
          [] a.sign = 1 /\ b.sign = 0 -> TRUE
          [] OTHER -> zero(x) /\ zero(y)

(* C20: every payment record of a returned declaration has a non-deductible
   part no greater than the amount paid: an item whose parcelaNaoDedutivel
   exceeds its valorPago yields no record. *)
C20_NonDeductibleWithinPaid ==
    xpc = "returned" =>
        \A j \in DOMAIN result.values.pagamentos_efetuados :
            DecimalLeq(
                result.values.pagamentos_efetuados[j].values.parcela_nao_dedutivel,
                result.values.pagamentos_efetuados[j].values.valor_pago)

\* the fields that hold a tax identifier (CPF or CNPJ), by schedule
IdentifierFields ==
    <<{},
      {"cpf_prestador"},
      {"cnpj_proponente"},
      {"cpf_cnpj_fonte_pagadora"},
      {"beneficiario", "cnpj_fonte_pagadora"},
      {"beneficiario", "cnpj_fonte_pagadora"}>>

(* C21: every tax-identifier field (provider, proponent, payer,
   beneficiary) of every record of a returned declaration holds digits
   only: the dots, dashes, slashes and spaces of the attribute are
   removed. *)
C21_IdentifiersOnlyDigits ==
    xpc = "returned" =>
        \A i \in DOMAIN IdentifierFields :
            \A j \in DOMAIN result.values[DeclField[i]] :
                \A f \in IdentifierFields[i] :
                    LET held == result.values[DeclField[i]][j].values[f]
                    IN  held # None =>
                            \A k \in DOMAIN held : held[k] \in Digits

\* the items of the two collections of income from legal entities
TitularItems ==
    FindSectionItems(doc.root, NamespaceOf(doc.root), "colecaoRendPJTitular")
DependenteItems ==
    FindSectionItems(doc.root, NamespaceOf(doc.root), "colecaoRendPJDependente")

(* C22: parse_rend_trib_pj merges the two collections: the list it returns
   holds one record for every item under colecaoRendPJTitular and one for
   every item under colecaoRendPJDependente, n + m records for n and m
   items. *)
C22_TitularAndDependentMerged ==
    "rend_trib_pj" \in DOMAIN locals =>
        Len(locals.rend_trib_pj) = Len(TitularItems) + Len(DependenteItems)

\* the items of the document, in document order, that have an ancestor
\* named section and whose own parent is a panel (a tag that ends with
\* QuadroAuxiliar), each with that parent; the names are those of the
\* namespace parse_irpf2025 took from the root
PanelItemsUnder(section) ==
    LET all == Descendants(doc.root)
        inside == UNION { {d.el : d \in {Descendants(all[i].el)[k] :
                                            k \in DOMAIN Descendants(all[i].el)}}
                          : i \in {j \in DOMAIN all :
                                      Matches(all[j].el, locals.ns, section)} }
    IN  SelectSeq(all, LAMBDA d : /\ Matches(d.el, locals.ns, "item")
                                  /\ d.el \in inside
                                  /\ d.parent \in inside
                                  /\ endswith_QuadroAuxiliar(d.parent.name))

\* the items below a section that no panel holds directly
OtherItemsUnder(section) ==
    LET all == Descendants(doc.root)
        inside == UNION { {d.el : d \in {Descendants(all[i].el)[k] :
                                            k \in DOMAIN Descendants(all[i].el)}}
                          : i \in {j \in DOMAIN all :
                                      Matches(all[j].el, locals.ns, section)} }
    IN  SelectSeq(all, LAMBDA d : /\ Matches(d.el, locals.ns, "item")
                                  /\ d.el \in inside
                                  /\ ~endswith_QuadroAuxiliar(d.parent.name))

(* C23: the list parse_rend_isentos returns holds exactly one record for
   each item that is a child of a container under rendIsentos whose tag
   ends with QuadroAuxiliar and none for any other item; the records are in
   the order of the items in the document, and the tipo_rendimento of each
   is the name, without namespace, of the container of its item. *)
C23_OneRecordPerPanelItem ==
    "rend_isentos" \in DOMAIN locals =>
        LET expected == PanelItemsUnder("rendIsentos")
            isentos == locals.rend_isentos
        IN  /\ Len(isentos) = Len(expected)
            /\ \A k \in DOMAIN expected :
                /\ isentos[k].values.tipo_rendimento = expected[k].parent.name
                /\ isentos[k].values.valor
                       = parse_money(AttribGet(expected[k].el, "valor"))

\* the exempt-income list was returned for a section with two panels of
\* items (one of them twice, once deeper), an item of the section itself
\* and an item of a container that is no panel
C23_Witness ==
    /\ "rend_isentos" \in DOMAIN locals
    /\ Len(locals.rend_isentos) = 4
    /\ Len(OtherItemsUnder("rendIsentos")) = 2
    /\ {locals.rend_isentos[k].values.tipo_rendimento : k \in 1..4}
           = {"lucrosDividendosQuadroAuxiliar", "rendAplicacoesQuadroAuxiliar"}

(* C24: parse_rend_exclusivos extracts only the items held by a panel (a
   container whose tag ends with QuadroAuxiliar): the tipo_rendimento of
   every record is the name of a panel, every item of a panel gives exactly
   one record, and an item directly under rendTributacaoExclusiva or in a
   container that is no panel gives none. *)
C24_OnlyPanelItems ==
    "rend_exclusivos" \in DOMAIN locals =>
        LET expected == PanelItemsUnder("rendTributacaoExclusiva")
            exclusivos == locals.rend_exclusivos
        IN  /\ Len(exclusivos) = Len(expected)
            /\ \A k \in DOMAIN exclusivos :
                endswith_QuadroAuxiliar(exclusivos[k].values.tipo_rendimento)

\* the payment items of the document
PagamentoItemsFound ==
    FindSectionItems(doc.root, NamespaceOf(doc.root), "pagamentos")

\* the attribute is present and not empty
Given(item, a) == a \in DOMAIN item.attrib /\ item.attrib[a] # <<>>

\* the first of the two attributes that is given, None when neither is
FirstGiven(item, a, b) ==
    IF Given(item, a) THEN item.attrib[a]
    ELSE IF Given(item, b) THEN item.attrib[b]
    ELSE None

(* C25: the record of every payment item takes the provider identifier
   from niBeneficiario when that attribute is present and not empty,
   otherwise from cpfPrestador when present and not empty, otherwise it is
   None; the name likewise from nomeBeneficiario, then nomePrestador.  An
   attribute that is present but empty never hides the alternate. *)
C25_FirstNonEmptyWins ==
    "pagamentos" \in DOMAIN locals =>
        \A j \in DOMAIN PagamentoItemsFound :
            LET item == PagamentoItemsFound[j]
                held == locals.pagamentos[j].values
            IN  /\ held.cpf_prestador
                       = FirstGiven(item, "niBeneficiario", "cpfPrestador")
                /\ held.nome_prestador
                       = FirstGiven(item, "nomeBeneficiario", "nomePrestador")

\* the payments were returned for items of which one has an empty
\* niBeneficiario and a cpfPrestador, one has both, and one has both empty
C25_Witness ==
    /\ "pagamentos" \in DOMAIN locals
    /\ \E j \in DOMAIN PagamentoItemsFound :
        /\ AttribGet(PagamentoItemsFound[j], "niBeneficiario") = <<>>
        /\ Given(PagamentoItemsFound[j], "cpfPrestador")
        /\ locals.pagamentos[j].values.cpf_prestador
               = PagamentoItemsFound[j].attrib.cpfPrestador
    /\ \E j \in DOMAIN PagamentoItemsFound :
        /\ Given(PagamentoItemsFound[j], "niBeneficiario")
        /\ Given(PagamentoItemsFound[j], "cpfPrestador")
        /\ locals.pagamentos[j].values.cpf_prestador
               = PagamentoItemsFound[j].attrib.niBeneficiario
    /\ \E j \in DOMAIN PagamentoItemsFound :
        /\ AttribGet(PagamentoItemsFound[j], "niBeneficiario") = <<>>
        /\ AttribGet(PagamentoItemsFound[j], "cpfPrestador") = <<>>
        /\ locals.pagamentos[j].values.cpf_prestador = None

\* the asset items of the document
BemItemsFound == FindSectionItems(doc.root, NamespaceOf(doc.root), "bens")

\* the attribute is absent, empty or made of whitespace only
Blank(item, a) ==
    a \in DOMAIN item.attrib =>
        \A k \in DOMAIN item.attrib[a] : item.attrib[a][k] \in Whitespace

\* the code a record is to hold for attribute a of its item: "00" for a
\* blank one, else the code without the whitespace around it, with a zero
\* before a single character
CodeExpected(item, a) ==
    IF Blank(item, a) THEN <<"0", "0">>
    ELSE LET code == strip(item.attrib[a])
         IN  IF Len(code) = 1 THEN <<"0">> \o code ELSE code

\* parse_bens raised: parse_irpf2025 was left before bens was assigned
BensRaised ==
    xpc = "raised" /\ "ns" \in DOMAIN locals /\ "bens" \notin DOMAIN locals

(* C26: parse_bens never fails an asset item because of its codes (when it
   raises, it is on an amount), and in the records it returns a group or
   item code that is absent, empty or whitespace becomes "00" while a code
   that is present is kept, padded with a zero to width 2; each of the two
   codes on its own. *)
C26_NeutralCodes ==
    /\ BensRaised => BadAmount(result)
    /\ "bens" \in DOMAIN locals =>
        /\ Len(locals.bens) = Len(BemItemsFound)
        /\ \A j \in DOMAIN BemItemsFound :
            /\ locals.bens[j].values.grupo = CodeExpected(BemItemsFound[j], "grupo")
            /\ locals.bens[j].values.codigo
                   = CodeExpected(BemItemsFound[j], "codigo")

\* the assets were returned for items of which one has a group and an empty
\* code, and one has a code and no group
C26_Witness ==
    /\ "bens" \in DOMAIN locals
    /\ \E j \in DOMAIN BemItemsFound :
        /\ AttribGet(BemItemsFound[j], "codigo") = <<>>
        /\ ~Blank(BemItemsFound[j], "grupo")
        /\ locals.bens[j].values.codigo = <<"0", "0">>
        /\ locals.bens[j].values.grupo = BemItemsFound[j].attrib.grupo
    /\ \E j \in DOMAIN BemItemsFound :
        /\ "grupo" \notin DOMAIN BemItemsFound[j].attrib
        /\ ~Blank(BemItemsFound[j], "codigo")
        /\ locals.bens[j].values.grupo = <<"0", "0">>
        /\ locals.bens[j].values.codigo = <<"0", "7">>

(* C28: the country code of the record parse_bens builds for an asset item
   is the pais attribute of the item when the item has one, and "105" only
   when it has none. *)
C28_CountryOfItem ==
    "bens" \in DOMAIN locals =>
        \A j \in DOMAIN BemItemsFound :
            locals.bens[j].values.pais
                = AttribGetOr(BemItemsFound[j], "pais", <<"1", "0", "5">>)

(* C27: parse_line splits every line with prefix MC, of any length, into
   three parts that do not overlap: the prefix of 2 characters, the free
   text (trimmed), and the control field NR_CONTROLE of exactly 10
   characters at the end; no character of the prefix or of the text is in
   NR_CONTROLE, also when the line has fewer than 12 characters. *)
C27_MessageParts ==
    (Returned("parse_line") /\ PrefixOf(arg) = MC) =>
        LET n == Len(arg)
            from == IF n - 10 < 2 THEN 2 ELSE n - 10
        IN  /\ ret.TP_REG = MC
            /\ ret.NR_CONTROLE = SubSeq(arg, from + 1, n)
            /\ IsTrimOf(ret.DES_MENSAGEM, SubSeq(arg, 3, from))
            /\ Len(ret.NR_CONTROLE) = 10

\* the TP_REG a record of each list is to have
ListTypes == [NC |-> NC, MC |-> MC, UNKNOWN |-> UNKNOWN]

(* C29: after any sequence of lines every record is in the slot of its own
   type: a singleton slot HC, RC, VC, TC is the empty record or a record
   whose TP_REG is the name of the slot; every record of the NC list has
   TP_REG "NC", of the MC list "MC", of UNKNOWN "UNKNOWN"; and no line with
   prefix MC is placed in UNKNOWN: every MC line has its record in the MC
   list, and UNKNOWN has no more records than lines of no known type. *)
C29_RecordsInOwnSlot ==
    /\ \A t \in SingletonTypes :
        data[t] # EmptyRecord => data[t]["TP_REG"] = TypeName(t)
    /\ \A t \in DOMAIN ListTypes :
        \A k \in DOMAIN data[t] : data[t][k]["TP_REG"] = ListTypes[t]
    /\ Len(data.MC) = Cardinality(LinesOfType(MC))
    /\ Len(data.UNKNOWN) = Cardinality(UnknownLines)

\* a file with a header line, a message line and a line of no known type
\* was read to its end
C29_Witness ==
    /\ eof
    /\ data.HC # EmptyRecord
    /\ Len(data.MC) = 1
    /\ Len(data.UNKNOWN) = 1
    /\ LinesOfType(MC) # {}

\* the fields of a layout whose columns [start, end) include column c
FieldsAt(layout, c) ==
    {i \in DOMAIN layout : layout[i][2] <= c /\ c < layout[i][3]}

\* the highest column of a layout, exclusive
MaxOffset(layout) ==
    CHOOSE m \in {layout[i][3] : i \in DOMAIN layout} :
        \A i \in DOMAIN layout : layout[i][3] <= m

\* the layout tiles its columns: TP_REG on columns 0-2, every field starts
\* where the one before it ends and is not empty, NR_CONTROLE of width 10 last
Tiles(layout) ==
    /\ layout[1] = <<"TP_REG", 0, 2>>
    /\ \A i \in DOMAIN layout : layout[i][2] < layout[i][3]
    /\ \A i \in 2..Len(layout) : layout[i][2] = layout[i - 1][3]
    /\ layout[Len(layout)][1] = "NR_CONTROLE"
    /\ layout[Len(layout)][3] - layout[Len(layout)][2] = 10

(* C30: every layout of LAYOUTS (HC, RC, NC, VC, TC) tiles the line with no
   gap and no overlap: TP_REG covers columns 0-2, each following field
   starts where the previous one ends, with start < end, and the last field
   is NR_CONTROLE of width 10; so every column of a full-length line below
   the highest offset of its layout belongs to exactly one field. *)
C30_LayoutsTile ==
    /\ \A key \in LayoutKeys : Tiles(LAYOUTS(key))
    /\ (Returned("parse_line") /\ PrefixOf(arg) \in LayoutKeys) =>
        LET layout == LAYOUTS(PrefixOf(arg))
        IN  Len(arg) >= MaxOffset(layout) =>
                \A c \in 0..(MaxOffset(layout) - 1) :
                    Cardinality(FieldsAt(layout, c)) = 1

\* a trailer line as long as its layout was decoded, control field included
C30_Witness ==
    /\ Returned("parse_line")
    /\ PrefixOf(arg) = TC
    /\ Len(arg) = MaxOffset(LAYOUT_TC)
    /\ DOMAIN ret = FieldNames(LAYOUT_TC)
    /\ ret.NR_CONTROLE # <<>>

=============================================================================
